---- MODULE Spec2Model ----
(***************************************************************************)
(* Verification model of the PocketOption async client:                    *)
(*   - the facade's order tracking and candle correlation (client.py),     *)
(*   - the facade's simple-mode connection tasks (client.py,               *)
(*     websocket_client.py),                                               *)
(*   - the keep-alive manager (connection_keep_alive.py).                  *)
(* Each part has its own specification over its own variables; the         *)
(* variables of the other parts stay at their initial values.              *)
(***************************************************************************)
EXTENDS Integers, Sequences, FiniteSets, TLC

(***************************************************************************)
(* Bounds of the model.                                                    *)
(***************************************************************************)
\* request ids (uuid4 values) the client can generate in one run
MaxOrders == 2
\* 200 ms polls that fit into the 30 s wait of _wait_for_order_result
OrderPollLimit == 1

\* the tasks that call place_order concurrently
Callers == {"c1", "c2"}

\* futures _request_candles can create in one run
MaxCandleCalls == 2
\* the tasks that call get_candles concurrently
CandleCallers == {"g1", "g2"}

\* connect cycles (_start_regular_connection runs) of one simple-mode client
MaxCycles == 3

\* endpoints one connect call tries in turn
MaxUrls == 2

\* a CircuitBreaker(failure_threshold, recovery_timeout), the seconds its
\* clock runs and the call() invocations made on it
FailureThreshold == 2
RecoveryTimeout == 2
MaxTime == 3
MaxCalls == 5
\* the tasks that call the breaker
BreakerCallers == {"b1", "b2"}

\* a RetryPolicy(max_attempts, base_delay, max_delay, exponential_base): the
\* largest max_attempts tried, and the delays in whole ticks
MaxAttemptsBound == 4
BaseDelay == 1
ExponentialBase == 2
MaxDelay == 3
\* an ErrorMonitor(alert_threshold, alert_window), the seconds its clock runs
\* and the errors recorded on it
AlertThreshold == 2
AlertWindow == 2
MaxMonitorTime == 3
MaxRecords == 4
ErrorTypes == {"X", "Y"}
\* the registered alert callbacks, in order of registration
AlertCallbacks == <<"cb1", "cb2">>

\* get_balance calls made and balance pushes received in one run
MaxBalanceCalls == 3
MaxBalancePushes == 2

\* the ssid arguments a client is constructed with: a raw session id, or a
\* complete '42["auth",{...}]' message with its own isDemo
SessionIds == {"s1", "s2", "s3"}
SsidInputs ==
    [kind : {"raw"}, session : SessionIds]
    \cup [kind : {"complete"}, session : SessionIds, isDemo : {0, 1}, uid : {7},
          platform : {1, 3}]

\* inbound frames fed to the two clients of the mode comparison
MaxInbound == 4
\* the binary JSON frames the server pushes: a balance, a detailed order, a
\* settlement, candle data for an asset
InboundFrames ==
    [kind : {"balance"}, value : {100, 200}]
    \cup [kind : {"order"}, id : {1, 2}]
    \cup [kind : {"deals"}, id : {1, 2}, profit : {-1, 1}]
    \cup [kind : {"candles"}, asset : {"EURUSD_otc", "GBPUSD_otc"}]

\* frames that arrive on the socket of one receive loop
MaxFrames == 4
\* the subscribers of the event every frame decodes to, in registration order
FrameHandlers == <<"h1", "h2">>

\* the longest handler list of one event name
MaxHandlers == 2
EventNames == {"order_closed", "balance_updated"}
Subscribers == {"h1", "h2", "h3"}

\* what the retried operation may return
RetryValues == {"r1", "r2", "r3"}

(***************************************************************************)
(* Program constants.                                                      *)
(***************************************************************************)
\* ConnectionKeepAlive.max_reconnect_attempts
MaxReconnectAttempts == 10
ConnectionMaxReconnectAttempts == 5
MinOrderAmount == 1
MaxOrderAmount == 50000
MinDuration == 5
MaxDuration == 43200

\* the catalogue ASSETS, cut to one entry, and a symbol that is not in it
ASSETS == {"EURUSD_otc"}
AssetInputs == {"EURUSD_otc", "NOPE"}
AmountInputs == {MinOrderAmount - 1, MinOrderAmount, MaxOrderAmount, MaxOrderAmount + 1}
DurationInputs == {MinDuration - 1, MinDuration, MaxDuration, MaxDuration + 1}
\* the parameter sets place_order is called with: each parameter is varied
\* over its inputs while the other two are valid
OrderInputs ==
    {[asset |-> a, amount |-> MinOrderAmount, duration |-> MinDuration] : a \in AssetInputs}
    \cup {[asset |-> "EURUSD_otc", amount |-> m, duration |-> MinDuration] : m \in AmountInputs}
    \cup {[asset |-> "EURUSD_otc", amount |-> MinOrderAmount, duration |-> d] : d \in DurationInputs}
\* what the connection does to a call: <<is_connected at the call, the
\* socket takes the order frame>>
ConnInputs == {<<TRUE, TRUE>>, <<TRUE, FALSE>>, <<FALSE, FALSE>>}
\* the calls: every parameter set on a working connection, and a valid and
\* an invalid one on each kind of broken connection
OrderCalls ==
    {[in |-> i, conn |-> <<TRUE, TRUE>>] : i \in OrderInputs}
    \cup {[in |-> [asset |-> a, amount |-> MinOrderAmount, duration |-> MinDuration], conn |-> k] :
               a \in AssetInputs, k \in ConnInputs}

OrderIds == 1..MaxOrders

NoProfit == "none"
NoResult == [status |-> "none"]
TimeoutAnnotation == "Timeout waiting for server confirmation"
Profits == {-1, 0, 1}

VARIABLES
    \* ---- order tracking (client.py) ----
    active_orders,   \* _active_orders : id -> OrderResult
    order_results,   \* _order_results : id -> OrderResult
    nextId,          \* the next value uuid.uuid4() yields
    opPc,            \* per place_order caller: idle / waiting / returned / raised
    opId,            \* the caller's request id
    opPolls,         \* 200 ms sleeps the caller's wait loop has done
    opResult,        \* what place_order returned to the caller
    opError,         \* the error place_order raised to the caller
    sentOrders,      \* request ids of the openOrder frames put on the wire
    returnedIds,     \* ids place_order has returned so far
    pushedIds,       \* ids a push event referenced while place_order waited for them
    \* ---- candle correlation (client.py) ----
    candle_requests, \* _candle_requests : request_id -> future, in insertion order
    nextFut,         \* the next asyncio.Future() created by _request_candles
    futDone,         \* future.done()
    futResult,       \* the result set on the future
    futBy,           \* "key" / "other": the push that resolved the future named its key / did not
    gcPc,            \* per get_candles caller: idle / waiting / returned / raised
    gcFut,           \* the future the caller awaits
    gcKey,           \* asset and timeframe (seconds) of the caller's request
    gcResult,        \* the candles get_candles returned to the caller
    gcError,         \* the error get_candles raised to the caller
    gcMatched,       \* a push naming the caller's asset and timeframe came while it waited
    gcSent,          \* the caller's call put a changeSymbol frame on the wire
    \* ---- simple-mode connection (client.py, websocket_client.py) ----
    client,          \* the sockets and tasks of the facade and its AsyncWebSocketClient
    cycles,          \* _connection_stats["total_connections"]
    connectResult,   \* what connect() returned, while nothing has run since: "true" / "false"
    afterDisconnect, \* disconnect() has returned and connect() was not called since
    lateActs,        \* what the client did while afterDisconnect: "frame", "connection"
    \* ---- keep-alive manager (connection_keep_alive.py) ----
    ka,              \* the fields of the ConnectionKeepAlive object and its four tasks
    kaSession,       \* how the session in use came about: none / initial / reconnected / restarted
    attemptsSince,   \* connect cycles the reconnection task ran since the last one that succeeded
    exhaustedEvents, \* "max_reconnects_reached" events emitted
    kaDelivered,     \* a frame of the session in use was handed to the subscribers
    kaHandshake,     \* _send_handshake on the last socket opened: none / done / failed
    \* ---- handshake (websocket_client.py, connection_keep_alive.py) ----
    hsImpl,          \* whose _send_handshake runs: "ws" (AsyncWebSocketClient) / "ka" (ConnectionKeepAlive)
    hsPc,            \* idle / await_initial / await_echo / connected / failed
    hsUrl,           \* the endpoint being tried, counted from 1
    hsLog,           \* frames received and sent on the endpoint being tried, in order
    \* ---- CircuitBreaker (monitoring.py) ----
    cb,              \* state, failure_count, last_failure_time of the breaker
    cbNow,           \* time.time(), in seconds
    cbInFlight,      \* the callers suspended inside the wrapped operation
    cbCalls,         \* call() invocations so far
    cbLast,          \* how the last wrapped operation that ended ended: success / failure
    cbStreak,        \* wrapped operations that failed since the last one that succeeded
    cbOverlap,       \* two calls were in flight together at some time
    \* ---- RetryPolicy (monitoring.py) ----
    rp,              \* max_attempts and jitter of the policy execute() runs under
    rpPc,            \* execute(): idle / calling / sleeping / returned / raised
    rpAttempt,       \* the loop variable attempt
    rpLog,           \* outcome of each invocation of the operation, in order
    rpDelays,        \* the delays slept, in order
    rpResult,        \* what execute() returned or raised
    \* ---- ErrorMonitor (monitoring.py) ----
    error_patterns,  \* error type -> the timestamps of its recorded errors
    emNow,           \* datetime.now(), in seconds
    emAlerts,        \* the alert callback invocations, in order
    \* ---- get_balance (client.py) ----
    balance,         \* _balance: NoBalance, or the push it came with and its age
    balConnected,    \* what the is_connected property answers
    balPushes,       \* balance pushes handled so far
    balFrames,       \* '42["getBalance"]' frames get_balance sent so far
    gbPc,            \* get_balance: idle / sleeping / returned / raised
    gbResult,        \* the Balance the last get_balance returned
    gbError,         \* the error the last get_balance raised
    gbRequestedAt,   \* balPushes when the last refresh was requested
    gbCalls,         \* get_balance calls so far
    balLast,         \* the operation that ran last
    \* ---- event emitters (client.py, websocket_client.py, connection_keep_alive.py) ----
    event_handlers,  \* _event_handlers / _event_callbacks: event name -> list of subscribers
    evEvent,         \* the event name of the last emit, "none" before it
    evRaising,       \* the subscribers that raise when invoked by the last emit
    evCalls,         \* the subscribers the last emit invoked, in order
    evLogged,        \* the subscribers whose error the last emit logged, in order
    evPropagated,    \* the last emit raised to its caller
    \* ---- receive loops (websocket_client.py, connection_keep_alive.py) ----
    rxMode,          \* none / simple (receive_messages) / persistent (_message_loop)
    rxPc,            \* the loop: idle / recv / processing / ended
    rxQueue,         \* frames received on the socket and not yet taken by recv()
    rxArrived,       \* frames that have arrived so far
    rxFrame,         \* the frame _process_message is working on
    rxHandler,       \* index in FrameHandlers of the handler that is next or running
    rxRunning,       \* that handler has started and is suspended
    rxLog,           \* handler starts and ends, in order
    \* ---- the facade in its two connection modes (client.py) ----
    mdSimple,        \* balance, order sets and candle requests of a simple-mode client
    mdPersistent,    \* the same of a persistent-mode client fed the same frames
    mdFrames,        \* inbound frames so far
    \* ---- authentication frame (client.py, connection_keep_alive.py) ----
    auClient,        \* the constructed client: its arguments and parsed ssid
    auFrame,         \* the frame sent as authentication in the handshake
    \* ---- place_order seen call by call (client.py) ----
    vdCall,          \* the arguments and connection of the place_order or get_candles call made last
    \* ---- order_closed events (client.py) ----
    enable_logging,  \* the constructor argument: "unset" before construction, then "True" or "False"
    ocEmitted,       \* order id -> order_closed events emitted with its result
    \* ---- the connection the order frame goes through (client.py) ----
    is_persistent,   \* the client's _is_persistent: "unset" before construction, then "True" or "False"
    \* ---- the facade's reconnection monitor (client.py) ----
    total_reconnects, \* _connection_stats["total_reconnects"], cut off one above the configured limit
    \* ---- HealthChecker (monitoring.py) ----
    health_status,   \* the dict health_status in insertion order: a sequence of [name, status]
    hcReport,        \* what get_health_report returned, NoReport once a probe has run since
    \* ---- OrderManager (utils.py) ----
    omActive,        \* OrderManager.active_orders: order id -> status
    omCompleted,     \* OrderManager.completed_orders: order id -> status
    omSeen           \* the order ids add_order or complete_order was called with

orderVars == <<active_orders, order_results, nextId, opPc, opId,
               opPolls, opResult, opError, sentOrders, returnedIds, pushedIds>>

candleVars == <<candle_requests, nextFut, futDone, futResult, futBy, gcPc, gcFut,
                gcKey, gcResult, gcError, gcMatched, gcSent>>

facadeVars == <<client, cycles, connectResult, afterDisconnect, lateActs>>

kaVars == <<ka, kaSession, attemptsSince, exhaustedEvents, kaDelivered, kaHandshake>>

hsVars == <<hsImpl, hsPc, hsUrl, hsLog>>

\* the connection and trading parts, and the parts around them
coreVars == <<orderVars, candleVars, facadeVars, kaVars>>
cbVars == <<cb, cbNow, cbInFlight, cbCalls, cbLast, cbStreak, cbOverlap>>
rpVars == <<rp, rpPc, rpAttempt, rpLog, rpDelays, rpResult>>
emVars == <<error_patterns, emNow, emAlerts>>
balVars == <<balance, balConnected, balPushes, balFrames, gbPc, gbResult, gbError,
             gbRequestedAt, gbCalls, balLast>>
evVars == <<event_handlers, evEvent, evRaising, evCalls, evLogged, evPropagated>>
rxVars == <<rxMode, rxPc, rxQueue, rxArrived, rxFrame, rxHandler, rxRunning, rxLog>>
mdVars == <<mdSimple, mdPersistent, mdFrames>>
auVars == <<auClient, auFrame>>
vdVars == <<vdCall>>
ocVars == <<enable_logging, ocEmitted>>
sdVars == <<is_persistent>>
frVars == <<total_reconnects>>
hcVars == <<health_status, hcReport>>
omVars == <<omActive, omCompleted, omSeen>>
libVars == <<hsVars, cbVars, rpVars, emVars, balVars, evVars, rxVars, mdVars, auVars, vdVars, ocVars, sdVars, frVars, hcVars, omVars>>
\* every variable group but one
allButHs == <<coreVars, cbVars, rpVars, emVars, balVars, evVars, rxVars, mdVars, auVars, vdVars, ocVars, sdVars, frVars, hcVars, omVars>>
allButCb == <<coreVars, hsVars, rpVars, emVars, balVars, evVars, rxVars, mdVars, auVars, vdVars, ocVars, sdVars, frVars, hcVars, omVars>>
allButRp == <<coreVars, hsVars, cbVars, emVars, balVars, evVars, rxVars, mdVars, auVars, vdVars, ocVars, sdVars, frVars, hcVars, omVars>>
allButEm == <<coreVars, hsVars, cbVars, rpVars, balVars, evVars, rxVars, mdVars, auVars, vdVars, ocVars, sdVars, frVars, hcVars, omVars>>
allButBal == <<coreVars, hsVars, cbVars, rpVars, emVars, evVars, rxVars, mdVars, auVars, vdVars, ocVars, sdVars, frVars, hcVars, omVars>>
allButEv == <<coreVars, hsVars, cbVars, rpVars, emVars, balVars, rxVars, mdVars, auVars, vdVars, ocVars, sdVars, frVars, hcVars, omVars>>
allButRx == <<coreVars, hsVars, cbVars, rpVars, emVars, balVars, evVars, mdVars, auVars, vdVars, ocVars, sdVars, frVars, hcVars, omVars>>
allButMd == <<coreVars, hsVars, cbVars, rpVars, emVars, balVars, evVars, rxVars, auVars, vdVars, ocVars, sdVars, frVars, hcVars, omVars>>
allButAu == <<coreVars, hsVars, cbVars, rpVars, emVars, balVars, evVars, rxVars, mdVars, vdVars, ocVars, sdVars, frVars, hcVars, omVars>>
allButVd == <<coreVars, hsVars, cbVars, rpVars, emVars, balVars, evVars, rxVars, mdVars, auVars, ocVars, sdVars, frVars, hcVars, omVars>>
allButOc == <<coreVars, hsVars, cbVars, rpVars, emVars, balVars, evVars, rxVars, mdVars, auVars, vdVars, sdVars, frVars, hcVars, omVars>>
allButSd == <<coreVars, hsVars, cbVars, rpVars, emVars, balVars, evVars, rxVars, mdVars, auVars, vdVars, ocVars, frVars, hcVars, omVars>>
allButFr == <<coreVars, hsVars, cbVars, rpVars, emVars, balVars, evVars, rxVars, mdVars, auVars, vdVars, ocVars, sdVars, hcVars, omVars>>
allButHc == <<coreVars, hsVars, cbVars, rpVars, emVars, balVars, evVars, rxVars, mdVars, auVars, vdVars, ocVars, sdVars, frVars, omVars>>
allButOm == <<coreVars, hsVars, cbVars, rpVars, emVars, balVars, evVars, rxVars, mdVars, auVars, vdVars, ocVars, sdVars, frVars, hcVars>>
allButBalOrders == <<hsVars, cbVars, rpVars, emVars, evVars, rxVars, mdVars, auVars, vdVars, ocVars, sdVars, frVars, hcVars, omVars>>
allButVdOrders == <<hsVars, cbVars, rpVars, emVars, balVars, evVars, rxVars, mdVars, auVars, ocVars, sdVars, frVars, hcVars, omVars>>
allButOcOrders == <<hsVars, cbVars, rpVars, emVars, balVars, evVars, rxVars, mdVars, auVars, vdVars, sdVars, frVars, hcVars, omVars>>
allButSdOrders == <<hsVars, cbVars, rpVars, emVars, balVars, evVars, rxVars, mdVars, auVars, vdVars, ocVars, frVars, hcVars, omVars>>
allButFrFacade == <<hsVars, cbVars, rpVars, emVars, balVars, evVars, rxVars, mdVars, auVars, vdVars, ocVars, sdVars, hcVars, omVars>>
allButCbRp == <<coreVars, hsVars, emVars, balVars, evVars, rxVars, mdVars, auVars, vdVars, ocVars, sdVars, frVars, hcVars, omVars>>

vars == <<coreVars, libVars>>

(***************************************************************************)
(* Order tracking: client.py                                               *)
(***************************************************************************)
EmptyMap == [x \in {} |-> NoResult]

\* dict[key] = value
Put(map, key, value) == [x \in (DOMAIN map) \cup {key} |-> IF x = key THEN value ELSE map[x]]

\* del dict[key]
Del(map, key) == [x \in (DOMAIN map) \ {key} |-> map[x]]

OrderResult(id, st, err, pr) ==
    [order_id |-> id, status |-> st, error_message |-> err, profit |-> pr]

\* a validation that looks at the asset alone
ValidAssetOnly(asset, amount, duration) == asset \in ASSETS

\* _validate_order_parameters: TRUE iff no InvalidParameterError is raised
ValidOrderParameters(asset, amount, duration) ==
    /\ asset \in ASSETS
    /\ ~(amount < MinOrderAmount \/ amount > MaxOrderAmount)
    /\ ~(duration < MinDuration \/ duration > MaxDuration)

InitOrders ==
    /\ active_orders = EmptyMap
    /\ order_results = EmptyMap
    /\ nextId = 1
    /\ opPc = [c \in Callers |-> "idle"]
    /\ opId = [c \in Callers |-> 0]
    /\ opPolls = [c \in Callers |-> 0]
    /\ opResult = [c \in Callers |-> NoResult]
    /\ opError = [c \in Callers |-> "none"]
    /\ sentOrders = {}
    /\ returnedIds = {}
    /\ pushedIds = {}

\* place_order raising err to caller c before anything was sent (the
\* call's locals are gone with it)
Raise(c, err) ==
    /\ opPc' = [opPc EXCEPT ![c] = "raised"]
    /\ opError' = [opError EXCEPT ![c] = err]
    /\ opResult' = [opResult EXCEPT ![c] = NoResult]
    /\ opId' = [opId EXCEPT ![c] = 0]

\* place_order up to its first suspension inside _wait_for_order_result:
\* connection check, validation, uuid4 and _send_order; the first test of
\* the wait loop is left to PollOrder.  isConnected is what the is_connected
\* property answers at the call, sendOk whether the socket takes the frame.
PlaceOrder(c, asset, amount, duration, isConnected, sendOk) ==
    /\ opPc[c] # "waiting"
    /\ nextId <= MaxOrders
    /\ IF ~isConnected
       THEN /\ Raise(c, "ConnectionError")
            /\ UNCHANGED <<nextId, opPolls, sentOrders>>
       ELSE IF ~ValidOrderParameters(asset, amount, duration)
       THEN /\ Raise(c, "InvalidParameterError")
            /\ UNCHANGED <<nextId, opPolls, sentOrders>>
       ELSE IF ~sendOk
       THEN \* the uuid of the failed call is never seen again
            /\ Raise(c, "OrderError")
            /\ UNCHANGED <<nextId, opPolls, sentOrders>>
       ELSE /\ nextId' = nextId + 1
            /\ opId' = [opId EXCEPT ![c] = nextId]
            /\ opPolls' = [opPolls EXCEPT ![c] = 0]
            /\ sentOrders' = sentOrders \cup {nextId}
            /\ opPc' = [opPc EXCEPT ![c] = "waiting"]
            /\ opError' = [opError EXCEPT ![c] = "none"]
            /\ opResult' = [opResult EXCEPT ![c] = NoResult]
    /\ UNCHANGED <<active_orders, order_results, returnedIds, pushedIds>>

\* place_order returning result r to caller c
Return(c, r) ==
    /\ opPc' = [opPc EXCEPT ![c] = "returned"]
    /\ opResult' = [opResult EXCEPT ![c] = r]
    /\ returnedIds' = returnedIds \cup {r.order_id}

\* the fallback OrderResult of _wait_for_order_result
FallbackResult(id) == OrderResult(id, "active", TimeoutAnnotation, NoProfit)

\* one pass of the wait loop of _wait_for_order_result while the 30 s have
\* not elapsed: look the id up in both sets, else sleep 200 ms
PollOrder(c) ==
    /\ opPc[c] = "waiting"
    /\ opPolls[c] < OrderPollLimit
    /\ IF opId[c] \in DOMAIN active_orders
       THEN Return(c, active_orders[opId[c]]) /\ UNCHANGED opPolls
       ELSE IF opId[c] \in DOMAIN order_results
       THEN Return(c, order_results[opId[c]]) /\ UNCHANGED opPolls
       ELSE /\ opPolls' = [opPolls EXCEPT ![c] = @ + 1]
            /\ UNCHANGED <<opPc, opResult, returnedIds>>
    /\ UNCHANGED <<active_orders, order_results, nextId, opId,
                   opError, sentOrders, pushedIds>>

\* as TimeoutOrder, with the fallback result returned and not stored
TimeoutOrderNotStored(c) ==
    /\ opPc[c] = "waiting"
    /\ opPolls[c] = OrderPollLimit
    /\ IF opId[c] \in DOMAIN active_orders
       THEN Return(c, active_orders[opId[c]])
       ELSE IF opId[c] \in DOMAIN order_results
       THEN Return(c, order_results[opId[c]])
       ELSE Return(c, FallbackResult(opId[c]))
    /\ UNCHANGED <<active_orders, order_results, nextId, opId, opPolls, opError,
                   sentOrders, pushedIds>>

\* the 30 s have elapsed: the final check, then the fallback result, which
\* is stored in _active_orders
TimeoutOrder(c) ==
    /\ opPc[c] = "waiting"
    /\ opPolls[c] = OrderPollLimit
    /\ IF opId[c] \in DOMAIN active_orders
       THEN Return(c, active_orders[opId[c]]) /\ UNCHANGED active_orders
       ELSE IF opId[c] \in DOMAIN order_results
       THEN Return(c, order_results[opId[c]]) /\ UNCHANGED active_orders
       ELSE /\ active_orders' = Put(active_orders, opId[c], FallbackResult(opId[c]))
            /\ Return(c, FallbackResult(opId[c]))
    /\ UNCHANGED <<order_results, nextId, opId, opPolls, opError,
                   sentOrders, pushedIds>>

\* ids a push event can name: the orders this client has sent
PushableIds == sentOrders

\* the ids among ids that a caller is waiting for at this moment
AwaitedIds(ids) == {id \in ids : \E c \in Callers : opPc[c] = "waiting" /\ opId[c] = id}

\* as TrackOpened, without the test that the id is not tracked yet
TrackOpenedUnchecked(act, res, id) ==
    Put(act, id, OrderResult(id, "active", "none", NoProfit))

\* _on_json_data, the branch for a payload with requestId, asset and amount
TrackOpened(act, res, id) ==
    IF id \notin DOMAIN act /\ id \notin DOMAIN res
    THEN Put(act, id, OrderResult(id, "active", "none", NoProfit))
    ELSE act

OnJsonDataOrder(id) ==
    /\ id \in PushableIds
    /\ active_orders' = TrackOpened(active_orders, order_results, id)
    /\ pushedIds' = pushedIds \cup AwaitedIds({id})
    /\ UNCHANGED <<order_results, nextId, opPc, opId, opPolls,
                   opResult, opError, sentOrders, returnedIds>>

\* a status rule that counts zero profit as a win
DealStatusZeroWins(profit) == IF profit >= 0 THEN "win" ELSE "lose"

\* status of a settled deal
DealStatus(profit) == IF profit > 0 THEN "win" ELSE IF profit < 0 THEN "lose" ELSE "lose"

\* as SettleDeal, without the del of the active entry
SettleDealNoDelete(act, res, deal) ==
    IF deal.id \in DOMAIN act
    THEN <<act, Put(res, deal.id, OrderResult(deal.id, DealStatus(deal.profit), "none", deal.profit))>>
    ELSE <<act, res>>

\* as SettleDeal, for entries a push has confirmed only
SettleDealConfirmedOnly(act, res, deal) ==
    IF deal.id \in DOMAIN act /\ act[deal.id].error_message = "none"
    THEN <<Del(act, deal.id),
           Put(res, deal.id, OrderResult(act[deal.id].order_id, DealStatus(deal.profit), "none", deal.profit))>>
    ELSE <<act, res>>

\* _on_json_data, the body of the loop over data["deals"] for one deal:
\* the pair <<_active_orders, _order_results>> after it
SettleDeal(act, res, deal) ==
    IF deal.id \in DOMAIN act
    THEN <<Del(act, deal.id),
           Put(res, deal.id, OrderResult(act[deal.id].order_id, DealStatus(deal.profit), "none", deal.profit))>>
    ELSE <<act, res>>

RECURSIVE SettleDeals(_, _, _)
SettleDeals(act, res, deals) ==
    IF deals = <<>> THEN <<act, res>>
    ELSE LET one == SettleDeal(act, res, Head(deals))
         IN  SettleDeals(one[1], one[2], Tail(deals))

\* the "deals" lists a settlement push carries: one deal, or two
DealLengths == {1, 2}
\* the ids a deal can name with an effect: a deal for an id that is neither
\* active nor awaited leaves every variable as it is
DealIds == (DOMAIN active_orders) \cup AwaitedIds(PushableIds)
DealsInputs ==
    UNION {[1..n -> [id : DealIds, profit : Profits]] : n \in DealLengths}

\* _on_json_data, the branch for a payload with a "deals" list
OnJsonDataDeals(deals) ==
    /\ LET after == SettleDeals(active_orders, order_results, deals)
       IN  /\ active_orders' = after[1]
           /\ order_results' = after[2]
    /\ pushedIds' = pushedIds \cup AwaitedIds({deals[i].id : i \in DOMAIN deals})
    /\ UNCHANGED <<nextId, opPc, opId, opPolls, opResult, opError,
                   sentOrders, returnedIds>>

NextOrders ==
    \/ \E c \in Callers, call \in OrderCalls :
          PlaceOrder(c, call.in.asset, call.in.amount, call.in.duration,
                     call.conn[1], call.conn[2]) /\ UNCHANGED <<candleVars, facadeVars, kaVars, libVars>>
    \/ \E c \in Callers : PollOrder(c) /\ UNCHANGED <<candleVars, facadeVars, kaVars, libVars>>
    \/ \E c \in Callers : TimeoutOrder(c) /\ UNCHANGED <<candleVars, facadeVars, kaVars, libVars>>
    \/ \E id \in OrderIds : OnJsonDataOrder(id) /\ UNCHANGED <<candleVars, facadeVars, kaVars, libVars>>
    \/ \E deals \in DealsInputs : OnJsonDataDeals(deals) /\ UNCHANGED <<candleVars, facadeVars, kaVars, libVars>>

(***************************************************************************)
(* Candle correlation: client.py                                           *)
(***************************************************************************)
\* TIMEFRAMES.get(timeframe, 60) for a timeframe string
TimeframeSeconds(tf) ==
    CASE tf = "1m" -> 60
      [] tf = "5m" -> 300
      [] OTHER -> 60

CandleAssets == {"EURUSD_otc", "GBPUSD_otc"}
TimeframeInputs == {"1m", "5m"}
\* the requests get_candles is called with: two keys that differ in asset
\* and in timeframe, and an asset that is not in the catalogue
CandleRequestInputs ==
    {<<"EURUSD_otc", "1m">>, <<"GBPUSD_otc", "5m">>, <<"NOPE", "1m">>}
\* the asset and period a push names; "" and 0 stand for a payload without
\* the field
PushPeriods == {TimeframeSeconds(tf) : tf \in TimeframeInputs}
NoAsset == ""
PushHeaders == (CandleAssets \X PushPeriods) \cup {<<NoAsset, 60>>, <<"EURUSD_otc", 0>>}

\* request_id = f"{asset}_{timeframe}"
RequestId(asset, timeframe) == asset \o "_" \o ToString(timeframe)

\* one row of a candle payload: its timestamp, the number of its elements
\* (a list row) and whether it is a dict
Row(ts, n) == [ts |-> ts, len |-> n, dict |-> FALSE]
CandlePayloads ==
    { <<Row(1, 4)>>, <<Row(1, 5)>>, <<Row(2, 6), Row(1, 6)>> }

Candle(row, asset, timeframe) == [timestamp |-> row.ts, asset |-> asset, timeframe |-> timeframe]

\* _parse_candles_data: the rows with at least 5 elements, in payload order
RECURSIVE ParseCandlesData(_, _, _)
ParseCandlesData(rows, asset, timeframe) ==
    IF rows = <<>> THEN <<>>
    ELSE LET rest == ParseCandlesData(Tail(rows), asset, timeframe)
         IN  IF ~Head(rows).dict /\ Head(rows).len >= 5
             THEN <<Candle(Head(rows), asset, timeframe)>> \o rest
             ELSE rest

\* insertion of one candle into a list sorted by timestamp
RECURSIVE InsertSorted(_, _)
InsertSorted(c, sorted) ==
    IF sorted = <<>> THEN <<c>>
    ELSE IF c.timestamp < Head(sorted).timestamp THEN <<c>> \o sorted
    ELSE <<Head(sorted)>> \o InsertSorted(c, Tail(sorted))

\* _parse_stream_candles: dict rows and list rows with at least 6 elements,
\* sorted by timestamp (a stable sort)
RECURSIVE ParseStreamCandles(_, _, _)
ParseStreamCandles(rows, asset, timeframe) ==
    IF rows = <<>> THEN <<>>
    ELSE LET r == rows[Len(rows)]
             before == ParseStreamCandles(SubSeq(rows, 1, Len(rows) - 1), asset, timeframe)
         IN  IF r.dict \/ r.len >= 6
             THEN InsertSorted(Candle(r, asset, timeframe), before)
             ELSE before

Futures == 1..MaxCandleCalls
NoKey == [asset |-> "-", period |-> 0]

InitCandles ==
    /\ candle_requests = <<>>
    /\ nextFut = 1
    /\ futDone = [f \in Futures |-> FALSE]
    /\ futResult = [f \in Futures |-> <<>>]
    /\ futBy = [f \in Futures |-> "none"]
    /\ gcPc = [c \in CandleCallers |-> "idle"]
    /\ gcFut = [c \in CandleCallers |-> 0]
    /\ gcKey = [c \in CandleCallers |-> NoKey]
    /\ gcResult = [c \in CandleCallers |-> <<>>]
    /\ gcError = [c \in CandleCallers |-> "none"]
    /\ gcMatched = [c \in CandleCallers |-> FALSE]
    /\ gcSent = [c \in CandleCallers |-> FALSE]

\* position of the entry with this request id in the dict, 0 if absent
RECURSIVE IndexOf(_, _)
IndexOf(reqs, id) ==
    IF reqs = <<>> THEN 0
    ELSE IF reqs[Len(reqs)].id = id THEN Len(reqs)
    ELSE IndexOf(SubSeq(reqs, 1, Len(reqs) - 1), id)

\* self._candle_requests[request_id] = candle_future: an existing key keeps
\* its place in the dict and gets the new future
SetRequest(reqs, entry) ==
    IF IndexOf(reqs, entry.id) = 0 THEN Append(reqs, entry)
    ELSE [reqs EXCEPT ![IndexOf(reqs, entry.id)] = entry]

\* del self._candle_requests[request_id], guarded by "in"
DelRequest(reqs, id) ==
    IF IndexOf(reqs, id) = 0 THEN reqs
    ELSE SubSeq(reqs, 1, IndexOf(reqs, id) - 1) \o SubSeq(reqs, IndexOf(reqs, id) + 1, Len(reqs))

\* get_candles raising err to caller c
RaiseCandles(c, err) ==
    /\ gcPc' = [gcPc EXCEPT ![c] = "raised"]
    /\ gcError' = [gcError EXCEPT ![c] = err]
    /\ gcResult' = [gcResult EXCEPT ![c] = <<>>]
    /\ gcFut' = [gcFut EXCEPT ![c] = 0]
    /\ gcKey' = [gcKey EXCEPT ![c] = NoKey]
    /\ gcMatched' = [gcMatched EXCEPT ![c] = FALSE]
    /\ gcSent' = [gcSent EXCEPT ![c] = FALSE]

\* the entry _request_candles stores for a new future
NewEntry(asset, timeframe, fut) ==
    [id |-> RequestId(asset, timeframe), asset |-> asset, timeframe |-> timeframe, fut |-> fut]

\* _request_candles up to the send: the future is created and stored under
\* the request id, whatever is stored there
RegisterRequest(reqs, asset, timeframe, fut) == SetRequest(reqs, NewEntry(asset, timeframe, fut))

\* get_candles up to its suspension in asyncio.wait_for.  isConnected is
\* what is_connected answers at the call (a call on a lost connection that
\* _attempt_reconnection repairs goes on as a connected one), sendOk whether
\* the socket takes the changeSymbol frame.
GetCandles(c, asset, tf, isConnected, sendOk) ==
    /\ gcPc[c] # "waiting"
    /\ nextFut <= MaxCandleCalls
    /\ IF ~isConnected
       THEN /\ RaiseCandles(c, "ConnectionError")
            /\ UNCHANGED <<candle_requests, nextFut>>
       ELSE IF asset \notin CandleAssets
       THEN /\ RaiseCandles(c, "InvalidParameterError")
            /\ UNCHANGED <<candle_requests, nextFut>>
       ELSE /\ candle_requests' =
                  RegisterRequest(candle_requests, asset, TimeframeSeconds(tf), nextFut)
            /\ nextFut' = nextFut + 1
            /\ IF ~sendOk
               THEN \* the send raises: PocketOptionError, the entry stays
                    RaiseCandles(c, "PocketOptionError")
               ELSE /\ gcSent' = [gcSent EXCEPT ![c] = TRUE]
                    /\ gcPc' = [gcPc EXCEPT ![c] = "waiting"]
                    /\ gcFut' = [gcFut EXCEPT ![c] = nextFut]
                    /\ gcKey' = [gcKey EXCEPT ![c] = [asset |-> asset, period |-> TimeframeSeconds(tf)]]
                    /\ gcResult' = [gcResult EXCEPT ![c] = <<>>]
                    /\ gcError' = [gcError EXCEPT ![c] = "none"]
                    /\ gcMatched' = [gcMatched EXCEPT ![c] = FALSE]
    /\ UNCHANGED <<futDone, futResult, futBy>>

\* the caller's wait_for ends: with the future's result when it is done,
\* with [] on the 10 s timeout otherwise (wait_for cancels the future); the
\* finally clause deletes whatever is stored under the caller's request id,
\* and nothing refers to the caller's future any more
FinishCandles(c) ==
    /\ gcPc[c] = "waiting"
    /\ gcPc' = [gcPc EXCEPT ![c] = "returned"]
    /\ gcResult' = [gcResult EXCEPT ![c] = IF futDone[gcFut[c]] THEN futResult[gcFut[c]] ELSE <<>>]
    /\ candle_requests' = DelRequest(candle_requests, RequestId(gcKey[c].asset, gcKey[c].period))
    /\ futDone' = [futDone EXCEPT ![gcFut[c]] = TRUE]
    /\ futResult' = [futResult EXCEPT ![gcFut[c]] = <<>>]
    /\ futBy' = [futBy EXCEPT ![gcFut[c]] = "none"]
    /\ UNCHANGED <<nextFut, gcFut, gcKey, gcError, gcMatched, gcSent>>

\* entry.fut.set_result(candles) by a push naming asset and period
Resolve(entry, candles, asset, period) ==
    /\ futDone' = [futDone EXCEPT ![entry.fut] = TRUE]
    /\ futResult' = [futResult EXCEPT ![entry.fut] = candles]
    /\ futBy' = [futBy EXCEPT ![entry.fut] =
                    IF asset = entry.asset /\ period = entry.timeframe THEN "key" ELSE "other"]

\* the callers a push naming asset and period matches
NoteMatch(asset, period) ==
    gcMatched' = [c \in CandleCallers |->
                     gcMatched[c] \/ (gcPc[c] = "waiting" /\ gcKey[c].asset = asset
                                      /\ gcKey[c].period = period)]

\* _on_json_data, the branch for a payload with a "candles" list
OnJsonDataCandles(asset, period, rows) ==
    /\ LET id == RequestId(asset, period)
           at == IndexOf(candle_requests, id)
       IN  IF asset # NoAsset /\ period # 0 /\ at # 0 /\ ~futDone[candle_requests[at].fut]
           THEN /\ Resolve(candle_requests[at], ParseCandlesData(rows, asset, period), asset, period)
                /\ candle_requests' = DelRequest(candle_requests, id)
           ELSE UNCHANGED <<futDone, futResult, futBy, candle_requests>>
    /\ NoteMatch(asset, period)
    /\ UNCHANGED <<nextFut, gcPc, gcFut, gcKey, gcResult, gcError, gcSent>>

\* _on_stream_update for a payload with asset, period and candles/data:
\* _handle_candles_stream
HandleCandlesStream(asset, period, rows) ==
    /\ LET id == RequestId(asset, period)
           at == IndexOf(candle_requests, id)
       IN  IF asset # NoAsset /\ period # 0 /\ at # 0
           THEN /\ IF ~futDone[candle_requests[at].fut]
                      /\ ParseStreamCandles(rows, asset, period) # <<>>
                   THEN Resolve(candle_requests[at], ParseStreamCandles(rows, asset, period), asset, period)
                   ELSE UNCHANGED <<futDone, futResult, futBy>>
                /\ candle_requests' = DelRequest(candle_requests, id)
           ELSE UNCHANGED <<futDone, futResult, futBy, candle_requests>>
    /\ NoteMatch(asset, period)
    /\ UNCHANGED <<nextFut, gcPc, gcFut, gcKey, gcResult, gcError, gcSent>>

\* position of the first entry whose future is not done, 0 if there is none
RECURSIVE FirstPendingFrom(_, _)
FirstPendingFrom(reqs, i) ==
    IF i > Len(reqs) THEN 0
    ELSE IF ~futDone[reqs[i].fut] THEN i
    ELSE FirstPendingFrom(reqs, i + 1)

\* _on_candles_received (event loadHistoryPeriod): the first future that is
\* not done gets the payload's candles, parsed under its own key
OnCandlesReceived(asset, period, rows) ==
    /\ LET at == FirstPendingFrom(candle_requests, 1)
       IN  IF at # 0
           THEN Resolve(candle_requests[at],
                        ParseCandlesData(rows, candle_requests[at].asset, candle_requests[at].timeframe),
                        asset, period)
           ELSE UNCHANGED <<futDone, futResult, futBy>>
    /\ NoteMatch(asset, period)
    /\ UNCHANGED <<candle_requests, nextFut, gcPc, gcFut, gcKey, gcResult, gcError, gcSent>>

NextCandles ==
    \/ \E c \in CandleCallers, req \in CandleRequestInputs, conn \in ConnInputs :
          GetCandles(c, req[1], req[2], conn[1], conn[2]) /\ UNCHANGED <<orderVars, facadeVars, kaVars, libVars>>
    \/ \E c \in CandleCallers : FinishCandles(c) /\ UNCHANGED <<orderVars, facadeVars, kaVars, libVars>>
    \/ \E push \in PushHeaders, rows \in CandlePayloads :
          OnJsonDataCandles(push[1], push[2], rows) /\ UNCHANGED <<orderVars, facadeVars, kaVars, libVars>>
    \/ \E push \in CandleAssets \X PushPeriods, rows \in CandlePayloads :
          HandleCandlesStream(push[1], push[2], rows) /\ UNCHANGED <<orderVars, facadeVars, kaVars, libVars>>
    \/ \E push \in PushHeaders, rows \in CandlePayloads :
          OnCandlesReceived(push[1], push[2], rows) /\ UNCHANGED <<orderVars, facadeVars, kaVars, libVars>>

(***************************************************************************)
(* Simple-mode connection: client.py, websocket_client.py                  *)
(***************************************************************************)
\* what happens to one region of a connect cycle: the socket does not open,
\* the handshake raises, no "successauth" comes within 10 s, or all is well
RegionOutcomes == {"open_fail", "handshake_fail", "auth_timeout", "ok"}
\* a connect cycle: the outcomes of the regions it gets to (none when no
\* region name is known); the cycle ends at the first region that is well
CycleOutcomes ==
    {<<>>} \cup {<<a>> : a \in RegionOutcomes}
           \cup {<<a, b>> : a \in RegionOutcomes \ {"ok"}, b \in RegionOutcomes}

\* the facade after __init__, and its AsyncWebSocketClient; a task
\* reference is none, alive or done (cancelled or finished)
InitClient(autoReconnect) ==
    [ auto_reconnect |-> autoReconnect,
      websocket      |-> "none",     \* _websocket.websocket: none / open / closed
      status         |-> "none",     \* _websocket.connection_info.status
      running        |-> FALSE,      \* _websocket._running
      ws_ping_task   |-> "none",     \* _websocket._ping_task
      wsOrphanPings  |-> 0,          \* running _websocket._ping_loop tasks nothing refers to
      ping_task      |-> "none",     \* _ping_task
      reconnect_task |-> "none",     \* _reconnect_task
      orphanPings    |-> 0,          \* running _ping_loop tasks nothing refers to
      orphanMonitors |-> 0,          \* running _reconnection_monitor tasks nothing refers to
      leaked         |-> 0 ]         \* open sockets nothing refers to

InitFacade ==
    /\ client = InitClient(TRUE)
    /\ cycles = 0
    /\ connectResult = "none"
    /\ afterDisconnect = FALSE
    /\ lateActs = {}

\* AsyncWebSocketClient.is_connected
IsConnected(cl) == cl.websocket = "open" /\ cl.status = "connected"

\* assigning a new task to a reference: a running task it held goes on
\* running with nothing referring to it
Orphaned(ref) == IF ref = "alive" THEN 1 ELSE 0

\* AsyncWebSocketClient.connect with one url whose socket opens: the socket
\* replaces the one held, connection_info says CONNECTED, _running is set
OpenSocket(cl) ==
    [cl EXCEPT !.leaked = @ + (IF cl.websocket = "open" THEN 1 ELSE 0),
               !.websocket = "open",
               !.status = "connected",
               !.running = TRUE]

\* AsyncWebSocketClient._start_background_tasks
StartBackgroundTasks(cl) ==
    [cl EXCEPT !.wsOrphanPings = @ + Orphaned(cl.ws_ping_task),
               !.ws_ping_task = "alive"]

\* _start_keep_alive_tasks
StartKeepAliveTasks(cl) ==
    [cl EXCEPT !.orphanPings = @ + Orphaned(cl.ping_task),
               !.ping_task = "alive",
               !.orphanMonitors = @ + (IF cl.auto_reconnect THEN Orphaned(cl.reconnect_task) ELSE 0),
               !.reconnect_task = IF cl.auto_reconnect THEN "alive" ELSE @]

\* one region of _start_regular_connection
TryRegion(cl, outcome) ==
    CASE outcome = "open_fail" ->
            \* websockets.connect raises: the handler closes the socket held
            [cl EXCEPT !.websocket = "none"]
      [] outcome = "handshake_fail" ->
            \* _send_handshake raises: the handler closes the new socket
            [OpenSocket(cl) EXCEPT !.websocket = "none"]
      [] outcome = "auth_timeout" ->
            \* _wait_for_authentication raises AuthenticationError, which
            \* the region loop catches
            StartBackgroundTasks(OpenSocket(cl))
      [] OTHER ->
            StartKeepAliveTasks(StartBackgroundTasks(OpenSocket(cl)))

\* the region loop of _start_regular_connection
RECURSIVE TryRegions(_, _)
TryRegions(cl, outcomes) ==
    IF outcomes = <<>> THEN cl
    ELSE TryRegions(TryRegion(cl, Head(outcomes)), Tail(outcomes))

\* _start_regular_connection returns True
Succeeds(outcomes) == \E i \in DOMAIN outcomes : outcomes[i] = "ok"

\* what a connect cycle does on the network
CycleActs(outcomes) ==
    (IF \E i \in DOMAIN outcomes : outcomes[i] # "open_fail" THEN {"connection"} ELSE {})
    \cup (IF \E i \in DOMAIN outcomes : outcomes[i] \in {"auth_timeout", "ok"} THEN {"frame"} ELSE {})

\* what is done while afterDisconnect is recorded
Late(acts) == lateActs' = IF afterDisconnect THEN lateActs \cup acts ELSE lateActs

\* connect() in simple mode (the first one follows the constructor, which
\* gets auto_reconnect), called on a client that is not connected and
\* whose keep-alive task references are not running: a new client, one whose
\* connect() failed, or one that was disconnected
Connect(autoReconnect, outcomes) ==
    /\ cycles < MaxCycles
    /\ cycles = 0 \/ autoReconnect = client.auto_reconnect
    /\ ~IsConnected(client)
    /\ client.ping_task # "alive" /\ client.reconnect_task # "alive"
    /\ client' = TryRegions([client EXCEPT !.auto_reconnect = autoReconnect], outcomes)
    /\ cycles' = cycles + 1
    /\ connectResult' = IF Succeeds(outcomes) THEN "true" ELSE "false"
    /\ afterDisconnect' = FALSE
    /\ lateActs' = {}

\* the socket is closed by the peer: receive_messages gets ConnectionClosed
\* and _handle_disconnect sets the status
ConnectionClosed ==
    /\ client.websocket = "open"
    /\ client' = [client EXCEPT !.websocket = "closed", !.status = "disconnected"]
    /\ connectResult' = "none"
    /\ UNCHANGED <<cycles, afterDisconnect, lateActs>>

\* a running _ping_loop of the facade wakes up; which says whether
\* _ping_task refers to it
PingLoop(which) ==
    /\ IF which = "ref" THEN client.ping_task = "alive" ELSE client.orphanPings > 0
    /\ IF IsConnected(client)
       THEN /\ Late({"frame"})
            /\ UNCHANGED client
       ELSE /\ client' = IF which = "ref"
                         THEN [client EXCEPT !.ping_task = "done"]
                         ELSE [client EXCEPT !.orphanPings = @ - 1]
            /\ UNCHANGED lateActs
    /\ connectResult' = "none"
    /\ UNCHANGED <<cycles, afterDisconnect>>

\* a running _ping_loop of the AsyncWebSocketClient wakes up
WsPingLoop(which) ==
    /\ IF which = "ref" THEN client.ws_ping_task = "alive" ELSE client.wsOrphanPings > 0
    /\ IF client.websocket = "open" THEN Late({"frame"}) ELSE UNCHANGED lateActs
    /\ IF client.running /\ client.websocket # "none"
       THEN UNCHANGED client
       ELSE client' = IF which = "ref"
                      THEN [client EXCEPT !.ws_ping_task = "done"]
                      ELSE [client EXCEPT !.wsOrphanPings = @ - 1]
    /\ connectResult' = "none"
    /\ UNCHANGED <<cycles, afterDisconnect>>

\* a running _reconnection_monitor wakes up and finds the client not
\* connected: it runs a connect cycle and goes on
ReconnectionMonitor(which, outcomes) ==
    /\ IF which = "ref" THEN client.reconnect_task = "alive" ELSE client.orphanMonitors > 0
    /\ client.auto_reconnect
    /\ ~IsConnected(client)
    /\ cycles < MaxCycles
    /\ client' = TryRegions(client, outcomes)
    /\ cycles' = cycles + 1
    /\ Late(CycleActs(outcomes))
    /\ connectResult' = "none"
    /\ UNCHANGED afterDisconnect

\* disconnect() in simple mode
Disconnect ==
    /\ ~afterDisconnect
    /\ client' = [client EXCEPT
                    !.ping_task = IF @ = "alive" THEN "done" ELSE @,
                    !.reconnect_task = IF @ = "alive" THEN "done" ELSE @,
                    !.running = FALSE,
                    !.ws_ping_task = IF @ = "alive" THEN "done" ELSE @,
                    !.websocket = "none",
                    !.status = IF @ = "none" THEN @ ELSE "disconnected"]
    /\ afterDisconnect' = TRUE
    /\ lateActs' = {}
    /\ connectResult' = "none"
    /\ UNCHANGED cycles

TaskKinds == {"ref", "orphan"}

NextFacade ==
    \/ \E autoReconnect \in BOOLEAN, outcomes \in CycleOutcomes :
          Connect(autoReconnect, outcomes) /\ UNCHANGED <<orderVars, candleVars, kaVars, libVars>>
    \/ ConnectionClosed /\ UNCHANGED <<orderVars, candleVars, kaVars, libVars>>
    \/ \E which \in TaskKinds : PingLoop(which) /\ UNCHANGED <<orderVars, candleVars, kaVars, libVars>>
    \/ \E which \in TaskKinds : WsPingLoop(which) /\ UNCHANGED <<orderVars, candleVars, kaVars, libVars>>
    \/ \E which \in TaskKinds, outcomes \in CycleOutcomes :
          ReconnectionMonitor(which, outcomes) /\ UNCHANGED <<orderVars, candleVars, kaVars, libVars>>
    \/ Disconnect /\ UNCHANGED <<orderVars, candleVars, kaVars, libVars>>

(***************************************************************************)
(* Keep-alive manager: connection_keep_alive.py                            *)
(***************************************************************************)
\* what happens to one url of _establish_connection
UrlOutcomes == {"open_fail", "handshake_fail", "ok"}
\* a connect cycle over the two urls of available_urls: it ends at the
\* first url that is well
KaCycleOutcomes ==
    {<<"ok">>} \cup {<<a, b>> : a \in UrlOutcomes \ {"ok"}, b \in UrlOutcomes}
\* the cycles in which no url completes a handshake
KaFailingOutcomes == {o \in KaCycleOutcomes : \A i \in DOMAIN o : o[i] # "ok"}

\* ConnectionKeepAlive.__init__
InitKa ==
    /\ ka = [ is_connected   |-> FALSE,
              websocket      |-> "none",    \* none / open / closed (by the peer)
              should_reconnect |-> TRUE,
              current_reconnect_attempts |-> 0,
              ping_task      |-> "none",
              message_task   |-> "none",
              health_task    |-> "none",
              reconnect_task |-> "none",
              last_ping_time |-> "none" ]   \* none / fresh / stale (older than 60 s)
    /\ kaSession = "none"
    /\ attemptsSince = 0
    /\ exhaustedEvents = 0
    /\ kaDelivered = FALSE
    /\ kaHandshake = "none"

\* one url of _establish_connection
TryUrl(k, outcome) ==
    CASE outcome = "open_fail" ->
            \* connect raises: the handler closes the socket held
            [k EXCEPT !.websocket = "none"]
      [] outcome = "handshake_fail" ->
            \* the socket opens, is_connected and the counter are set, then
            \* _send_handshake raises and the handler closes the socket
            [k EXCEPT !.websocket = "none", !.is_connected = TRUE,
                      !.current_reconnect_attempts = 0]
      [] OTHER ->
            [k EXCEPT !.websocket = "open", !.is_connected = TRUE,
                      !.current_reconnect_attempts = 0]

\* _establish_connection
RECURSIVE EstablishConnection(_, _)
EstablishConnection(k, outcomes) ==
    IF outcomes = <<>> THEN k
    ELSE EstablishConnection(TryUrl(k, Head(outcomes)), Tail(outcomes))

\* _establish_connection returns True
Established(outcomes) == \E i \in DOMAIN outcomes : outcomes[i] = "ok"

\* how _send_handshake ended on the last socket a cycle opened
HandshakeAfter(before, outcomes) ==
    IF Established(outcomes) THEN "done"
    ELSE IF \E i \in DOMAIN outcomes : outcomes[i] = "handshake_fail" THEN "failed"
    ELSE before

\* start_persistent_connection
StartPersistentConnection(outcomes) ==
    /\ kaSession = "none" /\ ka.reconnect_task = "none" /\ ka.should_reconnect
    /\ ~ka.is_connected
    /\ ka' = IF Established(outcomes)
             THEN [EstablishConnection(ka, outcomes) EXCEPT
                       !.ping_task = "alive", !.message_task = "alive",
                       !.health_task = "alive", !.reconnect_task = "alive"]
             ELSE EstablishConnection(ka, outcomes)
    /\ kaSession' = IF Established(outcomes) THEN "initial" ELSE "none"
    /\ kaHandshake' = HandshakeAfter(kaHandshake, outcomes)
    /\ UNCHANGED <<attemptsSince, exhaustedEvents, kaDelivered>>

\* the peer closes the socket
PeerCloses ==
    /\ ka.websocket = "open"
    /\ ka' = [ka EXCEPT !.websocket = "closed"]
    /\ UNCHANGED <<kaSession, attemptsSince, exhaustedEvents, kaDelivered, kaHandshake>>

\* one round of _ping_loop; sendOk says whether an open socket takes the frame
KaPingLoop(sendOk) ==
    /\ ka.ping_task = "alive"
    /\ ka' = IF ~ka.should_reconnect THEN [ka EXCEPT !.ping_task = "done"]
             ELSE IF ~(ka.is_connected /\ ka.websocket # "none") THEN ka
             ELSE IF ka.websocket = "open" /\ sendOk
                  THEN [ka EXCEPT !.last_ping_time = "fresh"]
                  ELSE [ka EXCEPT !.is_connected = FALSE, !.ping_task = "done"]
    /\ UNCHANGED <<kaSession, attemptsSince, exhaustedEvents, kaDelivered, kaHandshake>>

\* one round of _message_loop: a frame is received and handed on, or the
\* socket turns out closed
KaMessageLoop ==
    /\ ka.message_task = "alive"
    /\ ka' = IF ~ka.should_reconnect THEN [ka EXCEPT !.message_task = "done"]
             ELSE IF ~(ka.is_connected /\ ka.websocket # "none") THEN ka
             ELSE IF ka.websocket = "open" THEN ka
                  ELSE [ka EXCEPT !.is_connected = FALSE, !.message_task = "done"]
    /\ kaDelivered' = (kaDelivered \/ (ka.should_reconnect /\ ka.is_connected /\ ka.websocket = "open"))
    /\ UNCHANGED <<kaSession, attemptsSince, exhaustedEvents, kaHandshake>>

\* 60 s pass without a ping; the ping loop is not in a position to send one
PingGetsStale ==
    /\ ka.last_ping_time = "fresh"
    /\ ~(ka.ping_task = "alive" /\ ka.is_connected /\ ka.websocket = "open")
    /\ ka' = [ka EXCEPT !.last_ping_time = "stale"]
    /\ UNCHANGED <<kaSession, attemptsSince, exhaustedEvents, kaDelivered, kaHandshake>>

\* one round of _health_monitor_loop
HealthMonitorLoop ==
    /\ ka.health_task = "alive"
    /\ ka' = IF ~ka.should_reconnect THEN [ka EXCEPT !.health_task = "done"]
             ELSE IF ka.is_connected /\ (ka.last_ping_time = "stale" \/ ka.websocket = "closed")
                  THEN [ka EXCEPT !.is_connected = FALSE]
                  ELSE ka
    /\ UNCHANGED <<kaSession, attemptsSince, exhaustedEvents, kaDelivered, kaHandshake>>

\* the attempts counted since the last cycle that succeeded, cut off one
\* above the limit
CountAttempt(n) == IF n > MaxReconnectAttempts THEN n ELSE n + 1

\* one round of _reconnection_monitor that finds the session disconnected
KaReconnectionMonitor(outcomes) ==
    /\ ka.reconnect_task = "alive"
    /\ ka.should_reconnect
    /\ ~ka.is_connected
    /\ IF ka.current_reconnect_attempts + 1 <= MaxReconnectAttempts
       THEN /\ ka' = EstablishConnection(
                        [ka EXCEPT !.current_reconnect_attempts = @ + 1, !.websocket = "none"],
                        outcomes)
            /\ attemptsSince' = IF Established(outcomes) THEN 0 ELSE CountAttempt(attemptsSince)
            /\ kaSession' = IF Established(outcomes) THEN "reconnected" ELSE kaSession
            /\ kaDelivered' = (kaDelivered /\ ~Established(outcomes))
            /\ kaHandshake' = HandshakeAfter(kaHandshake, outcomes)
            /\ UNCHANGED exhaustedEvents
       ELSE /\ ka' = [ka EXCEPT !.current_reconnect_attempts = @ + 1, !.reconnect_task = "done"]
            /\ exhaustedEvents' = exhaustedEvents + 1
            /\ UNCHANGED <<kaSession, attemptsSince, kaDelivered, kaHandshake>>

\* stop_persistent_connection
StopPersistentConnection ==
    /\ ka.should_reconnect
    /\ kaSession # "none"
    /\ ka' = [ka EXCEPT
                !.should_reconnect = FALSE,
                !.ping_task = IF @ = "alive" THEN "done" ELSE @,
                !.message_task = IF @ = "alive" THEN "done" ELSE @,
                !.health_task = IF @ = "alive" THEN "done" ELSE @,
                !.reconnect_task = IF @ = "alive" THEN "done" ELSE @,
                !.websocket = "none",
                !.is_connected = FALSE]
    /\ UNCHANGED <<kaSession, attemptsSince, exhaustedEvents, kaDelivered, kaHandshake>>

NextKeepAlive ==
    \/ \E outcomes \in KaCycleOutcomes :
          StartPersistentConnection(outcomes) /\ UNCHANGED <<orderVars, candleVars, facadeVars, libVars>>
    \/ PeerCloses /\ UNCHANGED <<orderVars, candleVars, facadeVars, libVars>>
    \/ \E sendOk \in BOOLEAN : KaPingLoop(sendOk) /\ UNCHANGED <<orderVars, candleVars, facadeVars, libVars>>
    \/ KaMessageLoop /\ UNCHANGED <<orderVars, candleVars, facadeVars, libVars>>
    \/ PingGetsStale /\ UNCHANGED <<orderVars, candleVars, facadeVars, libVars>>
    \/ HealthMonitorLoop /\ UNCHANGED <<orderVars, candleVars, facadeVars, libVars>>
    \/ \E outcomes \in KaCycleOutcomes :
          KaReconnectionMonitor(outcomes) /\ UNCHANGED <<orderVars, candleVars, facadeVars, libVars>>
    \/ StopPersistentConnection /\ UNCHANGED <<orderVars, candleVars, facadeVars, libVars>>

\* start_persistent_connection called again after stop_persistent_connection:
\* nothing in it (or in _establish_connection, _start_background_tasks)
\* assigns should_reconnect, which stop left False
RestartPersistentConnection(outcomes) ==
    /\ ~ka.should_reconnect
    /\ ~ka.is_connected
    /\ ka' = IF Established(outcomes)
             THEN [EstablishConnection(ka, outcomes) EXCEPT
                       !.ping_task = "alive", !.message_task = "alive",
                       !.health_task = "alive", !.reconnect_task = "alive"]
             ELSE EstablishConnection(ka, outcomes)
    /\ kaSession' = IF Established(outcomes) THEN "restarted" ELSE kaSession
    /\ kaDelivered' = (kaDelivered /\ ~Established(outcomes))
    /\ kaHandshake' = HandshakeAfter(kaHandshake, outcomes)
    /\ UNCHANGED <<attemptsSince, exhaustedEvents>>

\* one round of _reconnection_monitor entered with should_reconnect False:
\* the while test fails and the task ends
KaReconnectionMonitorEnds ==
    /\ ka.reconnect_task = "alive"
    /\ ~ka.should_reconnect
    /\ ka' = [ka EXCEPT !.reconnect_task = "done"]
    /\ UNCHANGED <<kaSession, attemptsSince, exhaustedEvents, kaDelivered, kaHandshake>>

NextKeepAliveRestart ==
    \/ NextKeepAlive
    \/ \E outcomes \in KaCycleOutcomes :
          RestartPersistentConnection(outcomes) /\ UNCHANGED <<orderVars, candleVars, facadeVars, libVars>>
    \/ KaReconnectionMonitorEnds /\ UNCHANGED <<orderVars, candleVars, facadeVars, libVars>>

\* the manager when reconnection stays enabled and no connect cycle of the
\* reconnection task completes a handshake
ReconnectFailing ==
    \E outcomes \in KaFailingOutcomes :
        KaReconnectionMonitor(outcomes) /\ UNCHANGED <<orderVars, candleVars, facadeVars, libVars>>

NextKeepAliveFailing ==
    \/ \E outcomes \in KaCycleOutcomes :
          StartPersistentConnection(outcomes) /\ UNCHANGED <<orderVars, candleVars, facadeVars, libVars>>
    \/ PeerCloses /\ UNCHANGED <<orderVars, candleVars, facadeVars, libVars>>
    \/ \E sendOk \in BOOLEAN : KaPingLoop(sendOk) /\ UNCHANGED <<orderVars, candleVars, facadeVars, libVars>>
    \/ KaMessageLoop /\ UNCHANGED <<orderVars, candleVars, facadeVars, libVars>>
    \/ PingGetsStale /\ UNCHANGED <<orderVars, candleVars, facadeVars, libVars>>
    \/ HealthMonitorLoop /\ UNCHANGED <<orderVars, candleVars, facadeVars, libVars>>
    \/ ReconnectFailing

(***************************************************************************)
(* Handshake: websocket_client.py, connection_keep_alive.py                *)
(***************************************************************************)
\* a frame the server sends during the handshake: how it starts and
\* whether the text "sid" is in it
HandshakeFrames == [prefix : {"0", "40", "2"}, sid : BOOLEAN]
Received(frame) == [dir |-> "recv", frame |-> frame]
Sent(text) == [dir |-> "send", frame |-> [prefix |-> text, sid |-> FALSE]]

\* initial_message.startswith("0") and "sid" in initial_message
IsInitial(frame) == frame.prefix = "0" /\ frame.sid
\* conn_message_str.startswith("40") and "sid" in conn_message_str
IsAckEcho(frame) == frame.prefix = "40" /\ frame.sid

InitHandshake ==
    /\ hsImpl = "none"
    /\ hsPc = "idle"
    /\ hsUrl = 0
    /\ hsLog = <<>>

\* connect / _establish_connection turns to the next endpoint: its socket
\* opens or does not
OpenEndpoint(impl, openOk) ==
    /\ hsPc \in {"idle", "failed"}
    /\ hsUrl < MaxUrls
    /\ hsImpl \in {"none", impl}
    /\ hsImpl' = impl
    /\ hsUrl' = hsUrl + 1
    /\ hsLog' = <<>>
    /\ hsPc' = IF openOk THEN "await_initial" ELSE "failed"

\* the first recv of _send_handshake returns a frame
ReceiveInitial(frame) ==
    /\ hsPc = "await_initial"
    /\ IF hsImpl = "ka" \/ IsInitial(frame)
       THEN /\ hsLog' = hsLog \o <<Received(frame), Sent("40")>>
            /\ hsPc' = "await_echo"
       ELSE \* AsyncWebSocketClient logs a warning; _send_handshake returns
            /\ hsLog' = Append(hsLog, Received(frame))
            /\ hsPc' = "connected"
    /\ UNCHANGED <<hsImpl, hsUrl>>

\* the second recv of _send_handshake returns a frame
ReceiveAckEcho(frame) ==
    /\ hsPc = "await_echo"
    /\ hsLog' = IF hsImpl = "ka" \/ IsAckEcho(frame)
                THEN hsLog \o <<Received(frame), Sent("auth")>>
                ELSE Append(hsLog, Received(frame))
    /\ hsPc' = "connected"
    /\ UNCHANGED <<hsImpl, hsUrl>>

\* a recv of _send_handshake gets nothing within 10 s: the handshake raises
\* and the endpoint's connect fails
HandshakeTimeout ==
    /\ hsPc \in {"await_initial", "await_echo"}
    /\ hsPc' = "failed"
    /\ UNCHANGED <<hsImpl, hsUrl, hsLog>>

NextHandshake ==
    \/ \E impl \in {"ws", "ka"}, openOk \in BOOLEAN :
          OpenEndpoint(impl, openOk) /\ UNCHANGED allButHs
    \/ \E frame \in HandshakeFrames : ReceiveInitial(frame) /\ UNCHANGED allButHs
    \/ \E frame \in HandshakeFrames : ReceiveAckEcho(frame) /\ UNCHANGED allButHs
    \/ HandshakeTimeout /\ UNCHANGED allButHs

(***************************************************************************)
(* CircuitBreaker: monitoring.py                                           *)
(***************************************************************************)
NoTime == -1

\* CircuitBreaker.__init__
InitBreaker ==
    /\ cb = [state |-> "CLOSED", failure_count |-> 0, last_failure_time |-> NoTime]
    /\ cbNow = 0
    /\ cbInFlight = {}
    /\ cbCalls = 0
    /\ cbLast = "none"
    /\ cbStreak = 0
    /\ cbOverlap = FALSE

\* on_success with the counter left as it is
OnSuccessKeepsCount(b) == [b EXCEPT !.state = "CLOSED"]

\* on_success
OnSuccess(b) == [b EXCEPT !.failure_count = 0, !.state = "CLOSED"]

\* on_failure at time now
OnFailure(b, now) ==
    [b EXCEPT !.failure_count = @ + 1,
              !.last_failure_time = now,
              !.state = IF b.failure_count + 1 >= FailureThreshold THEN "OPEN" ELSE @]

\* call() while OPEN raises at once: a failure is on record and less than
\* recovery_timeout has passed since
FailsFast(b, now) ==
    b.state = "OPEN" /\ b.last_failure_time # NoTime /\ now - b.last_failure_time < RecoveryTimeout

\* call() up to the await of the wrapped operation
BreakerCall(c) ==
    /\ c \notin cbInFlight
    /\ cbCalls < MaxCalls
    /\ cbCalls' = cbCalls + 1
    /\ IF FailsFast(cb, cbNow)
       THEN UNCHANGED <<cb, cbInFlight, cbOverlap>>
       ELSE /\ cb' = IF cb.state = "OPEN" THEN [cb EXCEPT !.state = "HALF_OPEN"] ELSE cb
            /\ cbInFlight' = cbInFlight \cup {c}
            /\ cbOverlap' = (cbOverlap \/ cbInFlight # {})
    /\ UNCHANGED <<cbNow, cbLast, cbStreak>>

\* the wrapped operation of caller c returns or raises
BreakerReturn(c, success) ==
    /\ c \in cbInFlight
    /\ cbInFlight' = cbInFlight \ {c}
    /\ cb' = IF success THEN OnSuccess(cb) ELSE OnFailure(cb, cbNow)
    /\ cbLast' = IF success THEN "success" ELSE "failure"
    /\ cbStreak' = IF success THEN 0 ELSE cbStreak + 1
    /\ UNCHANGED <<cbNow, cbCalls, cbOverlap>>

\* a second passes
BreakerTick ==
    /\ cbNow < MaxTime
    /\ cbNow' = cbNow + 1
    /\ UNCHANGED <<cb, cbInFlight, cbCalls, cbLast, cbStreak, cbOverlap>>

NextBreaker ==
    \/ \E c \in BreakerCallers : BreakerCall(c) /\ UNCHANGED allButCb
    \/ \E c \in BreakerCallers, success \in BOOLEAN :
          BreakerReturn(c, success) /\ UNCHANGED allButCb
    \/ BreakerTick /\ UNCHANGED allButCb

(***************************************************************************)
(* RetryPolicy: monitoring.py                                              *)
(***************************************************************************)
RECURSIVE Pow(_, _)
Pow(b, e) == IF e = 0 THEN 1 ELSE b * Pow(b, e - 1)

Min(a, b) == IF a <= b THEN a ELSE b

\* RetryPolicy.__init__ and the state before execute() is called
InitRetry ==
    /\ rp = [max_attempts |-> 0, jitter |-> FALSE]
    /\ rpPc = "idle"
    /\ rpAttempt = 0
    /\ rpLog = <<>>
    /\ rpDelays = <<>>
    /\ rpResult = [kind |-> "none"]

\* a loop that never takes its break
NeverLastAttempt(attempt, n) == FALSE

\* if attempt == self.max_attempts - 1: break
IsLastAttempt(attempt, n) == attempt = n - 1

\* the delay without its cap
DelayUncapped(attempt) == BaseDelay * Pow(ExponentialBase, attempt)

\* delay = min(base_delay * exponential_base ** attempt, max_delay)
Delay(attempt) == Min(BaseDelay * Pow(ExponentialBase, attempt), MaxDelay)

\* delay *= 0.5 + random.random() * 0.5, in whole ticks
Jittered(delay) == {d \in 0..delay : 2 * d >= delay}

\* execute() is called on a policy: range(max_attempts) is entered, or is empty
RetryExecute(n, jitter) ==
    /\ rpPc = "idle"
    /\ rp' = [max_attempts |-> n, jitter |-> jitter]
    /\ IF n = 0
       THEN /\ rpPc' = "raised"
            /\ rpResult' = [kind |-> "no_exception"]
       ELSE /\ rpPc' = "calling"
            /\ UNCHANGED rpResult
    /\ UNCHANGED <<rpAttempt, rpLog, rpDelays>>

\* the awaited operation returns value, or raises: up to the next await
RetryInvoke(ok, value) ==
    /\ rpPc = "calling"
    /\ IF ok
       THEN /\ rpLog' = Append(rpLog, [kind |-> "ok", value |-> value])
            /\ rpPc' = "returned"
            /\ rpResult' = [kind |-> "ok", value |-> value]
            /\ UNCHANGED rpDelays
       ELSE /\ rpLog' = Append(rpLog, [kind |-> "error", value |-> Len(rpLog) + 1])
            /\ IF IsLastAttempt(rpAttempt, rp.max_attempts)
               THEN /\ rpPc' = "raised"
                    /\ rpResult' = [kind |-> "error", value |-> Len(rpLog) + 1]
                    /\ UNCHANGED rpDelays
               ELSE /\ rpPc' = "sleeping"
                    /\ \E d \in (IF rp.jitter THEN Jittered(Delay(rpAttempt))
                                              ELSE {Delay(rpAttempt)}) :
                          rpDelays' = Append(rpDelays, d)
                    /\ UNCHANGED rpResult
    /\ UNCHANGED <<rp, rpAttempt>>

\* asyncio.sleep(delay) is over: the next iteration
RetryWake ==
    /\ rpPc = "sleeping"
    /\ rpAttempt' = rpAttempt + 1
    /\ rpPc' = "calling"
    /\ UNCHANGED <<rp, rpLog, rpDelays, rpResult>>

NextRetry ==
    \/ \E n \in 0..MaxAttemptsBound, jitter \in BOOLEAN :
          RetryExecute(n, jitter) /\ UNCHANGED allButRp
    \/ \E ok \in BOOLEAN, value \in RetryValues :
          RetryInvoke(ok, value) /\ UNCHANGED allButRp
    \/ RetryWake /\ UNCHANGED allButRp

(***************************************************************************)
(* ErrorMonitor: monitoring.py                                             *)
(***************************************************************************)
\* ErrorMonitor.__init__ with the callbacks registered
InitMonitor ==
    /\ error_patterns = [t \in ErrorTypes |-> <<>>]
    /\ emNow = 0
    /\ emAlerts = <<>>

\* the recorded errors of every type inside the window
RecentErrorsAnyType(patterns, type, now) ==
    {<<t, i>> \in ErrorTypes \X (1..MaxRecords) :
        i <= Len(patterns[t]) /\ patterns[t][i] >= now - AlertWindow}

\* _check_alert_conditions: the recorded errors of the type inside the window
RecentErrors(patterns, type, now) ==
    {<<t, i>> \in {type} \X (1..MaxRecords) :
        i <= Len(patterns[t]) /\ patterns[t][i] >= now - AlertWindow}

\* _trigger_alert: every callback is awaited in turn, a raising one is logged
TriggerAlert(type, count, record) ==
    [i \in 1..Len(AlertCallbacks) |->
        [callback |-> AlertCallbacks[i], error_type |-> type,
         error_count |-> count, record |-> record]]

\* record_error(error_type, ...)
RecordError(type) ==
    /\ Len(error_patterns[type]) < MaxRecords
    /\ error_patterns' = [error_patterns EXCEPT ![type] = Append(@, emNow)]
    /\ LET recent == Cardinality(RecentErrors(error_patterns', type, emNow))
       IN  emAlerts' = IF recent >= AlertThreshold
                       THEN emAlerts \o TriggerAlert(type, recent, Len(error_patterns'[type]))
                       ELSE emAlerts
    /\ UNCHANGED emNow

\* a second passes
MonitorTick ==
    /\ emNow < MaxMonitorTime
    /\ emNow' = emNow + 1
    /\ UNCHANGED <<error_patterns, emAlerts>>

NextMonitor ==
    \/ \E type \in ErrorTypes : RecordError(type) /\ UNCHANGED allButEm
    \/ MonitorTick /\ UNCHANGED allButEm

(***************************************************************************)
(* get_balance: client.py                                                  *)
(***************************************************************************)
NoBalance == [push |-> 0, age |-> "none"]

\* the client after construction: no balance, not connected
InitBalance ==
    /\ balance = NoBalance
    /\ balConnected = FALSE
    /\ balPushes = 0
    /\ balFrames = 0
    /\ gbPc = "idle"
    /\ gbResult = NoBalance
    /\ gbError = "none"
    /\ gbRequestedAt = 0
    /\ gbCalls = 0
    /\ balLast = "none"

\* a check that lets every call through
NeverDisconnected(connected) == FALSE

\* if not self.is_connected
NotConnected(connected) == ~connected

\* (datetime.now() - last_updated).seconds > 60: the seconds field of the
\* difference leaves its days out, so it is small again after a whole day
SecondsOver60(b) == b.age = "stale"

\* not self._balance or the cached balance is older than 60 s
NeedsUpdate(b) == b = NoBalance \/ SecondsOver60(b)

GbRaise(err) ==
    /\ gbPc' = "raised"
    /\ gbError' = err
    /\ gbResult' = NoBalance

GbReturn(b) ==
    /\ gbPc' = "returned"
    /\ gbError' = "none"
    /\ gbResult' = b

\* get_balance up to its suspension in asyncio.sleep(1), or to its end
GetBalance(sendOk) ==
    /\ gbPc # "sleeping"
    /\ gbCalls < MaxBalanceCalls
    /\ gbCalls' = gbCalls + 1
    /\ balLast' = "get_balance"
    /\ IF NotConnected(balConnected)
       THEN GbRaise("ConnectionError") /\ UNCHANGED <<balFrames, gbRequestedAt>>
       ELSE IF NeedsUpdate(balance)
       THEN IF sendOk
            THEN /\ balFrames' = balFrames + 1
                 /\ gbRequestedAt' = balPushes
                 /\ gbPc' = "sleeping"
                 /\ UNCHANGED <<gbResult, gbError>>
            ELSE GbRaise("WebSocketError") /\ UNCHANGED <<balFrames, gbRequestedAt>>
       ELSE GbReturn(balance) /\ UNCHANGED <<balFrames, gbRequestedAt>>
    /\ UNCHANGED <<balance, balConnected, balPushes>>

\* get_balance after asyncio.sleep(1)
GetBalanceWake ==
    /\ gbPc = "sleeping"
    /\ balLast' = "wake"
    /\ IF balance = NoBalance
       THEN GbRaise("PocketOptionError")
       ELSE GbReturn(balance)
    /\ UNCHANGED <<balance, balConnected, balPushes, balFrames, gbRequestedAt, gbCalls>>

\* _on_balance_updated / _on_balance_data: a balance push is handled
OnBalanceUpdated ==
    /\ balConnected
    /\ balPushes < MaxBalancePushes
    /\ balPushes' = balPushes + 1
    /\ balance' = [push |-> balPushes + 1, age |-> "fresh"]
    /\ balLast' = "push"
    /\ UNCHANGED <<balConnected, balFrames, gbPc, gbResult, gbError, gbRequestedAt, gbCalls>>

\* time passes: the cached balance gets older than 60 s, then than a day
BalanceAges ==
    /\ balance.age \in {"fresh", "stale"}
    /\ balance' = [balance EXCEPT !.age = IF @ = "fresh" THEN "stale" ELSE "day_old"]
    /\ balLast' = "ages"
    /\ UNCHANGED <<balConnected, balPushes, balFrames, gbPc, gbResult, gbError,
                   gbRequestedAt, gbCalls>>

\* the connection comes up: is_connected answers True from now on
BalanceConnected ==
    /\ ~balConnected
    /\ balConnected' = TRUE
    /\ balLast' = "connect"
    /\ UNCHANGED <<balance, balPushes, balFrames, gbPc, gbResult, gbError,
                   gbRequestedAt, gbCalls>>

\* disconnect(): the cached balance is dropped
BalanceDisconnect ==
    /\ balConnected
    /\ balConnected' = FALSE
    /\ balance' = NoBalance
    /\ balLast' = "disconnect"
    /\ UNCHANGED <<balPushes, balFrames, gbPc, gbResult, gbError, gbRequestedAt, gbCalls>>

NextBalance ==
    \/ \E sendOk \in BOOLEAN : GetBalance(sendOk) /\ UNCHANGED allButBal
    \/ GetBalanceWake /\ UNCHANGED allButBal
    \/ OnBalanceUpdated /\ UNCHANGED allButBal
    \/ BalanceAges /\ UNCHANGED allButBal
    \/ BalanceConnected /\ UNCHANGED allButBal
    \/ BalanceDisconnect /\ UNCHANGED allButBal
    \/ \E c \in Callers, amount \in AmountInputs, sendOk \in BOOLEAN :
          /\ PlaceOrder(c, "EURUSD_otc", amount, MinDuration, balConnected, sendOk)
          /\ balLast' = "place_order"
          /\ UNCHANGED <<balance, balConnected, balPushes, balFrames, gbPc, gbResult,
                         gbError, gbRequestedAt, gbCalls>>
          /\ UNCHANGED <<candleVars, facadeVars, kaVars, allButBalOrders>>

(***************************************************************************)
(* _emit_event of the client, the transport and the keep-alive manager     *)
(***************************************************************************)
InitEvents ==
    /\ event_handlers = [e \in EventNames |-> <<>>]
    /\ evEvent = "none"
    /\ evRaising = {}
    /\ evCalls = <<>>
    /\ evLogged = <<>>
    /\ evPropagated = FALSE

\* a loop without the try: the first error ends it and reaches the caller
RECURSIVE RunHandlersUntilRaise(_, _)
RunHandlersUntilRaise(hs, raising) ==
    IF hs = <<>> THEN [calls |-> <<>>, logged |-> <<>>, propagated |-> FALSE]
    ELSE IF Head(hs) \in raising
    THEN [calls |-> <<Head(hs)>>, logged |-> <<>>, propagated |-> TRUE]
    ELSE LET rest == RunHandlersUntilRaise(Tail(hs), raising)
         IN  [rest EXCEPT !.calls = <<Head(hs)>> \o @]

\* for handler in handlers: try: handler(data) except Exception: logger.error
RECURSIVE RunHandlers(_, _)
RunHandlers(hs, raising) ==
    IF hs = <<>> THEN [calls |-> <<>>, logged |-> <<>>, propagated |-> FALSE]
    ELSE LET rest == RunHandlers(Tail(hs), raising)
         IN  [rest EXCEPT !.calls = <<Head(hs)>> \o @,
                          !.logged = (IF Head(hs) \in raising THEN <<Head(hs)>> ELSE <<>>) \o @]

\* add_event_handler / add_event_callback
AddEventHandler(event, handler) ==
    /\ Len(event_handlers[event]) < MaxHandlers
    /\ event_handlers' = [event_handlers EXCEPT ![event] = Append(@, handler)]
    /\ evEvent' = "none"
    /\ evRaising' = {}
    /\ evCalls' = <<>>
    /\ evLogged' = <<>>
    /\ evPropagated' = FALSE

\* _emit_event(event, data), the subscribers in raising raise an Exception
EmitEvent(event, raising) ==
    /\ LET run == RunHandlers(event_handlers[event], raising)
       IN  /\ evCalls' = run.calls
           /\ evLogged' = run.logged
           /\ evPropagated' = run.propagated
    /\ evEvent' = event
    /\ evRaising' = raising
    /\ UNCHANGED event_handlers

NextEvents ==
    \/ \E event \in EventNames, handler \in Subscribers :
          AddEventHandler(event, handler) /\ UNCHANGED allButEv
    \/ \E event \in EventNames, raising \in SUBSET Subscribers :
          EmitEvent(event, raising) /\ UNCHANGED allButEv

(***************************************************************************)
(* receive loops: websocket_client.py receive_messages,                    *)
(* connection_keep_alive.py _message_loop                                  *)
(***************************************************************************)
InitReceive ==
    /\ rxMode = "none"
    /\ rxPc = "idle"
    /\ rxQueue = <<>>
    /\ rxArrived = 0
    /\ rxFrame = 0
    /\ rxHandler = 0
    /\ rxRunning = FALSE
    /\ rxLog = <<>>

\* a loop that goes back to recv() while a frame is still being processed
ReceivesWhileProcessing(pc) == pc \in {"recv", "processing"}

\* the loop calls recv() only after the awaited _process_message returned
AtRecv(pc) == pc = "recv"

\* _start_background_tasks creates the loop's task
StartLoop(mode) ==
    /\ rxPc = "idle"
    /\ rxMode' = mode
    /\ rxPc' = "recv"
    /\ UNCHANGED <<rxQueue, rxArrived, rxFrame, rxHandler, rxRunning, rxLog>>

\* the peer's next frame reaches the socket
FrameArrives ==
    /\ rxPc \in {"recv", "processing"}
    /\ rxArrived < MaxFrames
    /\ rxArrived' = rxArrived + 1
    /\ rxQueue' = Append(rxQueue, rxArrived + 1)
    /\ UNCHANGED <<rxMode, rxPc, rxFrame, rxHandler, rxRunning, rxLog>>

\* message = await wait_for(websocket.recv(), ...); _process_message(message)
\* up to the first handler
LoopReceive ==
    /\ AtRecv(rxPc)
    /\ rxQueue # <<>>
    /\ rxFrame' = Head(rxQueue)
    /\ rxQueue' = Tail(rxQueue)
    /\ rxPc' = "processing"
    /\ rxHandler' = 1
    /\ rxRunning' = FALSE
    /\ UNCHANGED <<rxMode, rxArrived, rxLog>>

\* _emit_event: await handler(data), up to the handler's first suspension
HandlerStart ==
    /\ rxPc = "processing"
    /\ ~rxRunning
    /\ rxRunning' = TRUE
    /\ rxLog' = Append(rxLog, [frame |-> rxFrame, handler |-> FrameHandlers[rxHandler],
                               what |-> "start"])
    /\ UNCHANGED <<rxMode, rxPc, rxQueue, rxArrived, rxFrame, rxHandler>>

\* the handler returns or raises; after the last one _process_message returns
HandlerEnd ==
    /\ rxPc = "processing"
    /\ rxRunning
    /\ rxRunning' = FALSE
    /\ rxLog' = Append(rxLog, [frame |-> rxFrame, handler |-> FrameHandlers[rxHandler],
                               what |-> "end"])
    /\ IF rxHandler = Len(FrameHandlers)
       THEN rxPc' = "recv" /\ rxHandler' = 0
       ELSE rxPc' = "processing" /\ rxHandler' = rxHandler + 1
    /\ UNCHANGED <<rxMode, rxQueue, rxArrived, rxFrame>>

\* recv() raises ConnectionClosed: the loop breaks
LoopClosed ==
    /\ rxPc = "recv"
    /\ rxPc' = "ended"
    /\ UNCHANGED <<rxMode, rxQueue, rxArrived, rxFrame, rxHandler, rxRunning, rxLog>>

NextReceive ==
    \/ \E mode \in {"simple", "persistent"} : StartLoop(mode) /\ UNCHANGED allButRx
    \/ FrameArrives /\ UNCHANGED allButRx
    \/ LoopReceive /\ UNCHANGED allButRx
    \/ HandlerStart /\ UNCHANGED allButRx
    \/ HandlerEnd /\ UNCHANGED allButRx
    \/ LoopClosed /\ UNCHANGED allButRx

(***************************************************************************)
(* the two connection modes behind the facade: client.py,                  *)
(* websocket_client.py _process_message, connection_keep_alive.py          *)
(* _process_message                                                        *)
(***************************************************************************)
\* a connected client with one candle request pending and nothing cached
ConnectedClient ==
    [balance |-> 0, active |-> {}, completed |-> {}, pending |-> {"EURUSD_otc"},
     resolved |-> {}]

InitModes ==
    /\ mdSimple = ConnectedClient
    /\ mdPersistent = ConnectedClient
    /\ mdFrames = 0

\* AsyncWebSocketClient._process_message on a bytes frame that is JSON: the
\* event it emits
TransportEvent(frame) ==
    IF frame.kind = "balance"
    THEN [event |-> "balance_data", data |-> frame]
    ELSE [event |-> "json_data", data |-> frame]

\* ConnectionKeepAlive._process_message: every frame other than "2" and
\* successauth is emitted as message_received with a dict around the text
KeepAliveEvent(frame) ==
    [event |-> "message_received", data |-> [kind |-> "dict", message |-> frame]]

\* _on_json_data on the client state st
OnJsonData(st, data) ==
    CASE data.kind = "order" ->
            IF data.id \notin st.active /\ \A c \in st.completed : c[1] # data.id
            THEN [st EXCEPT !.active = @ \cup {data.id}] ELSE st
      [] data.kind = "deals" ->
            IF data.id \in st.active
            THEN [st EXCEPT !.active = @ \ {data.id},
                            !.completed = @ \cup {<<data.id, DealStatus(data.profit)>>}]
            ELSE st
      [] data.kind = "candles" ->
            IF data.asset \in st.pending
            THEN [st EXCEPT !.pending = @ \ {data.asset}, !.resolved = @ \cup {data.asset}]
            ELSE st
      [] OTHER -> st

\* the facade's handler registered for the event, run on the client state:
\* _on_balance_data, _on_json_data, or _on_keep_alive_message, which calls
\* message.startswith on the dict it is given and raises AttributeError
FacadeHandler(st, ev) ==
    CASE ev.event = "balance_data" -> [st EXCEPT !.balance = ev.data.value]
      [] ev.event = "json_data" -> OnJsonData(st, ev.data)
      [] ev.event = "message_received" -> st
      [] OTHER -> st

\* the same frame arrives at both clients
Inbound(frame) ==
    /\ mdFrames < MaxInbound
    /\ mdFrames' = mdFrames + 1
    /\ mdSimple' = FacadeHandler(mdSimple, TransportEvent(frame))
    /\ mdPersistent' = FacadeHandler(mdPersistent, KeepAliveEvent(frame))

NextModes ==
    \E frame \in InboundFrames : Inbound(frame) /\ UNCHANGED allButMd

(***************************************************************************)
(* the authentication frame: client.py __init__, _format_session_message,  *)
(* _start_persistent_connection; connection_keep_alive.py _send_handshake  *)
(***************************************************************************)
NoFrame == [kind |-> "none"]

InitAuth ==
    /\ auClient = [constructed |-> FALSE]
    /\ auFrame = NoFrame

\* AsyncPocketOptionClient.__init__: a complete ssid is parsed for session,
\* uid and platform, its isDemo is kept apart; is_demo is the argument
NewClient(ssid, is_demo, uid, persistent) ==
    [constructed |-> TRUE, raw_ssid |-> ssid, is_demo |-> is_demo,
     persistent_connection |-> persistent,
     session_id |-> ssid.session,
     uid |-> IF ssid.kind = "complete" THEN ssid.uid ELSE uid,
     platform |-> IF ssid.kind = "complete" THEN ssid.platform ELSE 1]

\* _format_session_message
FormatSessionMessage(cl) ==
    [kind |-> "complete", session |-> cl.session_id,
     isDemo |-> IF cl.is_demo THEN 1 ELSE 0, uid |-> cl.uid, platform |-> cl.platform]

\* what the handshake sends as authentication: the formatted message in
\* simple mode, ConnectionKeepAlive's self.ssid, which is raw_ssid, in
\* persistent mode
AuthSent(cl) ==
    IF cl.persistent_connection THEN cl.raw_ssid ELSE FormatSessionMessage(cl)

Construct(ssid, is_demo, uid, persistent) ==
    /\ ~auClient.constructed
    /\ auClient' = NewClient(ssid, is_demo, uid, persistent)
    /\ UNCHANGED auFrame

\* connect() up to the authentication frame of the handshake
SendAuth ==
    /\ auClient.constructed
    /\ auFrame = NoFrame
    /\ auFrame' = AuthSent(auClient)
    /\ UNCHANGED auClient

NextAuth ==
    \/ \E ssid \in SsidInputs, is_demo \in BOOLEAN, uid \in {0, 7}, persistent \in BOOLEAN :
          Construct(ssid, is_demo, uid, persistent) /\ UNCHANGED allButAu
    \/ SendAuth /\ UNCHANGED allButAu

(***************************************************************************)
(* place_order, call by call: client.py                                    *)
(***************************************************************************)
NoCall == [caller |-> "none"]

\* the timeframe strings get_candles is called with: two keys of TIMEFRAMES
\* and a string that is none
KnownTimeframes == {"1m", "5m"}
TimeframeCalls == [asset : CandleAssets, timeframe : KnownTimeframes \cup {"90s"}]

InitCalls == vdCall = NoCall

\* the order operations, with the last place_order call kept on record
NextCalls ==
    \/ \E c \in Callers, call \in OrderCalls :
          /\ PlaceOrder(c, call.in.asset, call.in.amount, call.in.duration,
                        call.conn[1], call.conn[2])
          /\ vdCall' = [caller |-> c, asset |-> call.in.asset, amount |-> call.in.amount,
                        duration |-> call.in.duration, connected |-> call.conn[1],
                        sendOk |-> call.conn[2]]
          /\ UNCHANGED <<candleVars, facadeVars, kaVars, allButVdOrders>>
    \/ \E c \in Callers :
          /\ PollOrder(c) \/ TimeoutOrder(c)
          /\ vdCall' = NoCall
          /\ UNCHANGED <<candleVars, facadeVars, kaVars, allButVdOrders>>
    \/ \E id \in OrderIds :
          /\ OnJsonDataOrder(id)
          /\ vdCall' = NoCall
          /\ UNCHANGED <<candleVars, facadeVars, kaVars, allButVdOrders>>

(***************************************************************************)
(* order_closed events of a settlement: client.py _on_json_data            *)
(***************************************************************************)
InitClosed ==
    /\ enable_logging = "unset"
    /\ ocEmitted = [id \in OrderIds |-> 0]

\* AsyncPocketOptionClient(..., enable_logging=logging)
ConstructClient(logging) ==
    /\ enable_logging = "unset"
    /\ enable_logging' = logging
    /\ UNCHANGED ocEmitted

\* the order_closed events the deals branch emits for the orders it moved to
\* _order_results: the emit stands inside "if self.enable_logging:"
ClosedEvents(before, after, logging) ==
    [id \in OrderIds |->
        IF id \in DOMAIN after /\ id \notin DOMAIN before /\ logging = "True" THEN 1 ELSE 0]

NextClosed ==
    \/ \E logging \in {"True", "False"} :
          ConstructClient(logging) /\ UNCHANGED <<coreVars, allButOcOrders>>
    \/ \E c \in Callers, sendOk \in BOOLEAN :
          /\ enable_logging # "unset"
          /\ PlaceOrder(c, "EURUSD_otc", MinOrderAmount, MinDuration, TRUE, sendOk)
          /\ UNCHANGED <<candleVars, facadeVars, kaVars, allButOcOrders, ocVars>>
    \/ \E c \in Callers :
          /\ PollOrder(c) \/ TimeoutOrder(c)
          /\ UNCHANGED <<candleVars, facadeVars, kaVars, allButOcOrders, ocVars>>
    \/ \E id \in OrderIds :
          /\ OnJsonDataOrder(id)
          /\ UNCHANGED <<candleVars, facadeVars, kaVars, allButOcOrders, ocVars>>
    \/ \E deals \in DealsInputs :
          /\ OnJsonDataDeals(deals)
          /\ ocEmitted' = [id \in OrderIds |->
                ocEmitted[id] + ClosedEvents(order_results, order_results', enable_logging)[id]]
          /\ UNCHANGED <<candleVars, facadeVars, kaVars, allButOcOrders, enable_logging>>

(***************************************************************************)
(* The order frame on either connection: client.py _send_order,            *)
(* websocket_client.py send_message, connection_keep_alive.py send_message *)
(***************************************************************************)
InitSend == is_persistent = "unset"

\* AsyncPocketOptionClient(..., persistent_connection=persistent), connected
ConstructConnection(persistent) ==
    /\ is_persistent = "unset"
    /\ is_persistent' = persistent

\* what _send_order does with a frame the socket takes (sendOk) or refuses:
\* AsyncWebSocketClient.send_message raises WebSocketError on a failed send,
\* ConnectionKeepAlive.send_message catches the failure and returns False,
\* which _send_order does not look at
SendOrder(persistent, sendOk) ==
    IF sendOk THEN "sent"
    ELSE IF persistent = "True" THEN "returned False"
    ELSE "raised"

\* place_order of a connected client with valid arguments, up to its first
\* suspension in _wait_for_order_result
PlaceOrderThrough(c, persistent, sendOk) ==
    IF SendOrder(persistent, sendOk) = "returned False"
    THEN \* the wait starts for an id the server has never seen
         /\ opPc[c] # "waiting"
         /\ nextId <= MaxOrders
         /\ nextId' = nextId + 1
         /\ opId' = [opId EXCEPT ![c] = nextId]
         /\ opPolls' = [opPolls EXCEPT ![c] = 0]
         /\ opPc' = [opPc EXCEPT ![c] = "waiting"]
         /\ opError' = [opError EXCEPT ![c] = "none"]
         /\ opResult' = [opResult EXCEPT ![c] = NoResult]
         /\ UNCHANGED <<active_orders, order_results, sentOrders, returnedIds, pushedIds>>
    ELSE PlaceOrder(c, "EURUSD_otc", MinOrderAmount, MinDuration, TRUE, sendOk)

NextSend ==
    \/ \E persistent \in {"True", "False"} :
          ConstructConnection(persistent) /\ UNCHANGED <<coreVars, allButSdOrders>>
    \/ \E c \in Callers, sendOk \in BOOLEAN :
          /\ is_persistent # "unset"
          /\ PlaceOrderThrough(c, is_persistent, sendOk)
          /\ UNCHANGED <<candleVars, facadeVars, kaVars, allButSdOrders, sdVars>>
    \/ \E c \in Callers :
          /\ PollOrder(c) \/ TimeoutOrder(c)
          /\ UNCHANGED <<candleVars, facadeVars, kaVars, allButSdOrders, sdVars>>
    \/ \E id \in OrderIds :
          /\ OnJsonDataOrder(id)
          /\ UNCHANGED <<candleVars, facadeVars, kaVars, allButSdOrders, sdVars>>
    \/ \E deals \in DealsInputs :
          /\ OnJsonDataDeals(deals)
          /\ UNCHANGED <<candleVars, facadeVars, kaVars, allButSdOrders, sdVars>>

(***************************************************************************)
(* The facade's reconnection monitor when no region can be reached:        *)
(* client.py _reconnection_monitor                                         *)
(***************************************************************************)
InitReconnects == total_reconnects = 0

\* the counter of the monitor's attempts, cut off one above the limit
CountReconnect(n) == IF n > ConnectionMaxReconnectAttempts THEN n ELSE n + 1

\* a running _reconnection_monitor wakes up, finds the client not connected
\* and runs a connect cycle in which every region refuses the connection:
\* it sleeps and goes round its loop again
ReconnectionRefused(which) ==
    /\ IF which = "ref" THEN client.reconnect_task = "alive" ELSE client.orphanMonitors > 0
    /\ client.auto_reconnect
    /\ ~IsConnected(client)
    /\ total_reconnects' = CountReconnect(total_reconnects)
    /\ client' = TryRegions(client, <<"open_fail", "open_fail">>)
    /\ connectResult' = "none"
    /\ UNCHANGED <<cycles, afterDisconnect, lateActs>>

NextReconnects ==
    \/ \E outcomes \in CycleOutcomes :
          Connect(TRUE, outcomes) /\ UNCHANGED <<orderVars, candleVars, kaVars, libVars>>
    \/ ConnectionClosed /\ UNCHANGED <<orderVars, candleVars, kaVars, libVars>>
    \/ \E which \in TaskKinds : PingLoop(which) /\ UNCHANGED <<orderVars, candleVars, kaVars, libVars>>
    \/ \E which \in TaskKinds : WsPingLoop(which) /\ UNCHANGED <<orderVars, candleVars, kaVars, libVars>>
    \/ \E which \in TaskKinds :
          ReconnectionRefused(which) /\ UNCHANGED <<orderVars, candleVars, kaVars, allButFrFacade>>

(***************************************************************************)
(* HealthChecker: monitoring.py                                            *)
(***************************************************************************)
ProbeNames == {"p1", "p2", "p3"}
\* a probe returns something truthy, something falsy, or raises
ProbeResults == {"truthy", "falsy", "raises"}
NoReport == [overall_status |-> "none", unhealthy_services |-> <<>>]

InitHealth ==
    /\ health_status = <<>>
    /\ hcReport = NoReport

\* the status _health_check_loop records for a probe
ProbeStatus(result) ==
    IF result = "raises" THEN "error"
    ELSE IF result = "truthy" THEN "healthy" ELSE "unhealthy"

\* health_status[name] = {...}: a key the dict has keeps its place
SetStatus(hs, name, status) ==
    IF \E i \in DOMAIN hs : hs[i].name = name
    THEN [i \in DOMAIN hs |-> IF hs[i].name = name THEN [name |-> name, status |-> status] ELSE hs[i]]
    ELSE Append(hs, [name |-> name, status |-> status])

\* the body of the loop of _health_check_loop for one probe
RunProbe(name, result) ==
    /\ health_status' = SetStatus(health_status, name, ProbeStatus(result))
    /\ hcReport' = NoReport

\* an overall status that never goes beyond degraded
OverallDegradedOnly(overall) == "degraded"

\* get_health_report: overall_status after one more non-healthy service
OverallAfter(overall) == IF overall = "healthy" THEN "degraded" ELSE "unhealthy"

\* get_health_report: the loop over health_status.items()
RECURSIVE HealthReport(_, _)
HealthReport(hs, report) ==
    IF hs = <<>> THEN report
    ELSE HealthReport(Tail(hs),
            IF Head(hs).status # "healthy"
            THEN [overall_status |-> OverallAfter(report.overall_status),
                  unhealthy_services |-> Append(report.unhealthy_services, Head(hs).name)]
            ELSE report)

GetHealthReport ==
    /\ hcReport' = HealthReport(health_status,
                      [overall_status |-> "healthy", unhealthy_services |-> <<>>])
    /\ UNCHANGED health_status

NextHealth ==
    \/ \E name \in ProbeNames, result \in ProbeResults :
          RunProbe(name, result) /\ UNCHANGED allButHc
    \/ GetHealthReport /\ UNCHANGED allButHc

(***************************************************************************)
(* OrderManager: utils.py                                                  *)
(***************************************************************************)
ManagedIds == {"o1", "o2", "o3"}
CompletedStatuses == {"win", "lose"}

\* OrderManager.__init__
InitOrderManager ==
    /\ omActive = EmptyMap
    /\ omCompleted = EmptyMap
    /\ omSeen = {}

\* add_order(order)
AddOrder(id) ==
    /\ omActive' = Put(omActive, id, "active")
    /\ omSeen' = omSeen \cup {id}
    /\ UNCHANGED omCompleted

\* complete_order(order_id, result)
CompleteOrder(id, status) ==
    /\ omActive' = IF id \in DOMAIN omActive THEN Del(omActive, id) ELSE omActive
    /\ omCompleted' = Put(omCompleted, id, status)
    /\ omSeen' = omSeen \cup {id}

\* get_active_count, get_completed_count
GetActiveCount == Cardinality(DOMAIN omActive)
GetCompletedCount == Cardinality(DOMAIN omCompleted)

NextOrderManager ==
    \/ \E id \in ManagedIds : AddOrder(id) /\ UNCHANGED allButOm
    \/ \E id \in ManagedIds, status \in CompletedStatuses :
          CompleteOrder(id, status) /\ UNCHANGED allButOm

(***************************************************************************)
(* execute_with_monitoring with use_circuit_breaker and use_retry:         *)
(* monitoring.py, circuit_breaker.call(retry_policy.execute, func)         *)
(***************************************************************************)
\* the policies of ErrorMonitor.retry_policies make at least one attempt
MonitoredAttempts == 1..MaxAttemptsBound

\* execute_with_monitoring up to the first await of func: CircuitBreaker.call
\* raises at once, or awaits retry_policy.execute
MonitoredCall(c, n) ==
    /\ rpPc = "idle"
    /\ BreakerCall(c)
    /\ IF FailsFast(cb, cbNow)
       THEN UNCHANGED rpVars
       ELSE RetryExecute(n, TRUE)

\* as MonitoredAttempt, with the breaker told of every attempt's outcome
MonitoredAttemptObserved(ok, value) ==
    /\ RetryInvoke(ok, value)
    /\ cb' = IF ok THEN OnSuccess(cb) ELSE OnFailure(cb, cbNow)
    /\ UNCHANGED <<cbNow, cbInFlight, cbCalls, cbLast, cbStreak, cbOverlap>>

\* one attempt of the retry loop running inside the breaker's call
MonitoredAttempt(ok, value) ==
    /\ RetryInvoke(ok, value)
    /\ UNCHANGED cbVars

\* retry_policy.execute has returned or raised: CircuitBreaker.call runs
\* on_success or on_failure and execute_with_monitoring ends
MonitoredReturn(c) ==
    /\ rpPc \in {"returned", "raised"}
    /\ BreakerReturn(c, rpPc = "returned")
    /\ rp' = [max_attempts |-> 0, jitter |-> FALSE]
    /\ rpPc' = "idle"
    /\ rpAttempt' = 0
    /\ rpLog' = <<>>
    /\ rpDelays' = <<>>
    /\ rpResult' = [kind |-> "none"]

NextMonitored ==
    \/ \E c \in BreakerCallers, n \in MonitoredAttempts :
          MonitoredCall(c, n) /\ UNCHANGED allButCbRp
    \/ \E ok \in BOOLEAN, value \in RetryValues :
          MonitoredAttempt(ok, value) /\ UNCHANGED allButCbRp
    \/ RetryWake /\ UNCHANGED <<cbVars, allButCbRp>>
    \/ \E c \in BreakerCallers : MonitoredReturn(c) /\ UNCHANGED allButCbRp
    \/ BreakerTick /\ UNCHANGED <<rpVars, allButCbRp>>

Init ==
    /\ InitOrders /\ InitCandles /\ InitFacade /\ InitKa /\ InitHandshake
    /\ InitBreaker /\ InitRetry /\ InitMonitor /\ InitBalance /\ InitEvents /\ InitReceive /\ InitModes /\ InitAuth /\ InitCalls /\ InitClosed /\ InitSend /\ InitReconnects /\ InitHealth /\ InitOrderManager

SpecBalance == Init /\ [][NextBalance]_vars

SpecClosed == Init /\ [][NextClosed]_vars

SpecSend == Init /\ [][NextSend]_vars

SpecMonitored == Init /\ [][NextMonitored]_vars

SpecOrderManager == Init /\ [][NextOrderManager]_vars

SpecHealth == Init /\ [][NextHealth]_vars

SpecKeepAliveRestart == Init /\ [][NextKeepAliveRestart]_vars

SpecReconnects == Init /\ [][NextReconnects]_vars

\* get_candles, with the last call kept on record
NextCandleCalls ==
    \/ \E c \in CandleCallers, call \in TimeframeCalls, sendOk \in BOOLEAN :
          /\ GetCandles(c, call.asset, call.timeframe, TRUE, sendOk)
          /\ vdCall' = [caller |-> c, asset |-> call.asset, timeframe |-> call.timeframe,
                        connected |-> TRUE, sendOk |-> sendOk]
          /\ UNCHANGED <<orderVars, facadeVars, kaVars, allButVdOrders>>
    \/ \E c \in CandleCallers :
          /\ FinishCandles(c)
          /\ vdCall' = NoCall
          /\ UNCHANGED <<orderVars, facadeVars, kaVars, allButVdOrders>>

SpecCandleCalls == Init /\ [][NextCandleCalls]_vars

SpecCalls == Init /\ [][NextCalls]_vars

SpecAuth == Init /\ [][NextAuth]_vars

SpecModes == Init /\ [][NextModes]_vars

SpecReceive == Init /\ [][NextReceive]_vars

SpecEvents == Init /\ [][NextEvents]_vars

SpecMonitor == Init /\ [][NextMonitor]_vars

SpecRetry == Init /\ [][NextRetry]_vars

SpecBreaker == Init /\ [][NextBreaker]_vars

SpecHandshake == Init /\ [][NextHandshake]_vars

SpecOrders == Init /\ [][NextOrders]_vars

SpecCandles == Init /\ [][NextCandles]_vars

SpecFacade == Init /\ [][NextFacade]_vars

SpecKeepAlive == Init /\ [][NextKeepAlive]_vars

\* every task of the manager gets its turn, and time passes
SpecKeepAliveFailing ==
    /\ Init
    /\ [][NextKeepAliveFailing]_vars
    /\ WF_vars(ReconnectFailing)
    /\ WF_vars(HealthMonitorLoop /\ UNCHANGED <<orderVars, candleVars, facadeVars, libVars>>)
    /\ WF_vars(KaMessageLoop /\ UNCHANGED <<orderVars, candleVars, facadeVars, libVars>>)
    /\ WF_vars(PingGetsStale /\ UNCHANGED <<orderVars, candleVars, facadeVars, libVars>>)

(***************************************************************************)
(* C1: every id place_order has returned is, in every later state, in      *)
(* exactly one of _active_orders and _order_results.                       *)
(***************************************************************************)
C1_ExactlyOneSet ==
    \A id \in returnedIds :
        (id \in DOMAIN active_orders) # (id \in DOMAIN order_results)

\* a returned order has been settled while another caller is still waiting
C1_Witness ==
    \E id \in returnedIds :
        /\ id \in DOMAIN order_results
        /\ id \notin DOMAIN active_orders
        /\ \E c \in Callers : opPc[c] = "waiting"

(***************************************************************************)
(* C2: a place_order whose request id no push event references returns    *)
(* when its bounded wait is over (it is never left without a step to      *)
(* take, and never polls more often than the wait allows), and what it    *)
(* returns is the fallback: status Active, a non-null error_message, and  *)
(* that very object stored in _active_orders.                              *)
(***************************************************************************)
C2_WaitIsBounded ==
    \A c \in Callers :
        opPc[c] = "waiting" =>
            /\ opPolls[c] <= OrderPollLimit
            /\ ENABLED (PollOrder(c) \/ TimeoutOrder(c))

C2_ReturnsFallback ==
    \A c \in Callers :
        (opPc[c] = "waiting" /\ opPc'[c] = "returned" /\ opId[c] \notin pushedIds) =>
            /\ opPolls[c] = OrderPollLimit
            /\ opResult'[c].status = "active"
            /\ opResult'[c].error_message # "none"
            /\ opId[c] \in DOMAIN active_orders'
            /\ active_orders'[opId[c]] = opResult'[c]

C2_TimeoutFallback == []C2_WaitIsBounded /\ [][C2_ReturnsFallback]_vars

\* a caller has got the fallback for an id no push referenced, while the
\* other caller's order was confirmed by a push
C2_Witness ==
    \E c \in Callers, d \in Callers :
        /\ opPc[c] = "returned"
        /\ opId[c] \notin pushedIds
        /\ opResult[c] = FallbackResult(opId[c])
        /\ opPc[d] = "returned"
        /\ opId[d] \in pushedIds

(***************************************************************************)
(* C3: a get_candles call made while connected, for which no push naming   *)
(* its asset and timeframe arrives, returns the empty list at the          *)
(* deadline, raises nothing, and leaves no entry holding its future.       *)
(***************************************************************************)
C3_NoMatchGivesEmpty ==
    \A c \in CandleCallers :
        (gcPc[c] = "returned" /\ ~gcMatched[c]) =>
            /\ gcResult[c] = <<>>
            /\ gcError[c] = "none"
            /\ \A i \in DOMAIN candle_requests : candle_requests[i].fut # gcFut[c]

(***************************************************************************)
(* C4: a get_candles call for a key that another call is still waiting on  *)
(* attaches to the waiting call's slot: both wait on one future and only   *)
(* the first of them put a request on the wire.                            *)
(***************************************************************************)
C4_SecondCallAttaches ==
    \A c, d \in CandleCallers :
        (c # d /\ gcPc[c] = "waiting" /\ gcPc[d] = "waiting" /\ gcKey[c] = gcKey[d]) =>
            /\ gcFut[c] = gcFut[d]
            /\ ~(gcSent[c] /\ gcSent[d])

(***************************************************************************)
(* C5: a pending candle request is resolved with data only by a push that  *)
(* names the request's asset and its timeframe.                            *)
(***************************************************************************)
C5_ResolvedOnlyByOwnKey ==
    \A f \in Futures : futBy[f] # "other"

(***************************************************************************)
(* C6: after disconnect() has returned the client sends no frame and opens *)
(* no connection: no task that a connect or an automatic reconnect started *)
(* acts on the network any more.                                           *)
(***************************************************************************)
C6_QuietAfterDisconnect == afterDisconnect => lateActs = {}

(***************************************************************************)
(* C7: a connect() call in which every region fails returns false and      *)
(* leaves the client disconnected: is_connected false, no socket open, no  *)
(* background task running.                                                *)
(***************************************************************************)
C7_FailedConnectLeavesDisconnected ==
    connectResult = "false" =>
        /\ ~IsConnected(client)
        /\ client.websocket # "open" /\ client.leaked = 0
        /\ client.ws_ping_task # "alive" /\ client.wsOrphanPings = 0
        /\ client.ping_task # "alive" /\ client.orphanPings = 0
        /\ client.reconnect_task # "alive" /\ client.orphanMonitors = 0

(***************************************************************************)
(* C8: the connect cycles the reconnection task has run since the last     *)
(* cycle that succeeded (socket opened and handshake completed) are never  *)
(* more than max_reconnect_attempts.                                       *)
(***************************************************************************)
C8_AttemptsBounded == attemptsSince <= MaxReconnectAttempts

(***************************************************************************)
(* C9: when the session is disconnected, reconnection is enabled and no    *)
(* connect cycle completes a handshake, the reconnection task eventually   *)
(* emits the attempts-exhausted event, once, and has stopped.              *)
(***************************************************************************)
C9_ExhaustionReached ==
    (ka.reconnect_task = "alive" /\ ~ka.is_connected)
        ~> (exhaustedEvents = 1 /\ ka.reconnect_task = "done")

(***************************************************************************)
(* C10: while a session that the reconnection task re-established stays    *)
(* connected, the ping loop and the message loop are running on it.        *)
(***************************************************************************)
C10_KeepAliveResumes ==
    (kaSession = "reconnected" /\ ka.should_reconnect /\ ka.is_connected /\ ka.websocket = "open")
        => (ka.ping_task = "alive" /\ ka.message_task = "alive")

(***************************************************************************)
(* C11: the keep-alive session is reported connected (is_connected) only   *)
(* when the handshake on the socket it opened last has completed, not      *)
(* after that handshake has failed or timed out.                           *)
(***************************************************************************)
C11_ConnectedOnlyAfterHandshake == ka.is_connected => kaHandshake = "done"

(***************************************************************************)
(* C12: on an endpoint the auth payload is sent only after an initial      *)
(* frame with a session id was received, the ack was sent and an ack echo  *)
(* with a session id was received, in this order; and the endpoint's       *)
(* connect succeeds only if the auth payload was sent on it.               *)
(***************************************************************************)
C12_HandshakeOrder ==
    /\ (\E i \in DOMAIN hsLog : hsLog[i] = Sent("auth")) =>
           /\ Len(hsLog) = 4
           /\ hsLog[1].dir = "recv" /\ IsInitial(hsLog[1].frame)
           /\ hsLog[2] = Sent("40")
           /\ hsLog[3].dir = "recv" /\ IsAckEcho(hsLog[3].frame)
           /\ hsLog[4] = Sent("auth")
    /\ hsPc = "connected" => \E i \in DOMAIN hsLog : hsLog[i] = Sent("auth")

(***************************************************************************)
(* C13: with calls made one at a time, the breaker opens exactly when      *)
(* failure_threshold operations in a row have failed; while open and less  *)
(* than recovery_timeout after the last failure a call fails without the   *)
(* operation being invoked; the first call after that makes it half-open   *)
(* and invokes the operation, whose success closes the breaker with the    *)
(* counter reset and whose failure opens it again.                         *)
(***************************************************************************)
C13_BreakerStep ==
    ~cbOverlap' =>
        \* a call() is made
        /\ (cbCalls' = cbCalls + 1 /\ cb.state = "OPEN"
               /\ cbNow - cb.last_failure_time < RecoveryTimeout)
              => (cbInFlight' = cbInFlight /\ cb' = cb)
        /\ (cbCalls' = cbCalls + 1 /\ cb.state = "OPEN"
               /\ cbNow - cb.last_failure_time >= RecoveryTimeout)
              => (cbInFlight' # cbInFlight /\ cb'.state = "HALF_OPEN")
        /\ (cbCalls' = cbCalls + 1 /\ cb.state # "OPEN")
              => (cbInFlight' # cbInFlight /\ cb' = cb)
        \* a wrapped operation ends
        /\ (cbInFlight' # cbInFlight /\ cbCalls' = cbCalls /\ cbLast' = "success")
              => (cb'.state = "CLOSED" /\ cb'.failure_count = 0)
        /\ (cbInFlight' # cbInFlight /\ cbCalls' = cbCalls /\ cbLast' = "failure"
               /\ cb.state = "HALF_OPEN")
              => cb'.state = "OPEN"
        /\ (cbInFlight' # cbInFlight /\ cbCalls' = cbCalls /\ cbLast' = "failure"
               /\ cb.state = "CLOSED")
              => (cb'.state = "OPEN" <=> cbStreak' >= FailureThreshold)
              /\ (cb'.state # "OPEN" => cb'.state = "CLOSED")

C13_BreakerSequential == [][C13_BreakerStep]_vars

\* calls made one at a time: the breaker opened, a call found it past the
\* recovery timeout, and its operation failed
C13_Witness ==
    ~cbOverlap /\ cb.state = "OPEN" /\ cb.failure_count > FailureThreshold
        /\ cbLast = "failure"

(***************************************************************************)
(* C14: the breaker's state changes only from CLOSED to OPEN, from OPEN to *)
(* HALF_OPEN, from HALF_OPEN to CLOSED and from HALF_OPEN to OPEN, also    *)
(* with several calls in flight.                                           *)
(***************************************************************************)
C14_BreakerTransitions ==
    [][cb'.state # cb.state =>
          <<cb.state, cb'.state>> \in {<<"CLOSED", "OPEN">>, <<"OPEN", "HALF_OPEN">>,
                                       <<"HALF_OPEN", "CLOSED">>, <<"HALF_OPEN", "OPEN">>}]_vars

(***************************************************************************)
(* C15: execute() invokes the operation at most max_attempts times; no     *)
(* invocation follows a successful one, whose value is what execute()      *)
(* returns; when all max_attempts invocations failed execute() raises the  *)
(* error of the last of them.                                              *)
(***************************************************************************)
C15_RetryBounded ==
    /\ rpPc # "idle" => Len(rpLog) <= rp.max_attempts
    /\ \A i \in 1..Len(rpLog) : rpLog[i].kind = "ok" => i = Len(rpLog)
    /\ (Len(rpLog) > 0 /\ rpLog[Len(rpLog)].kind = "ok")
          => (rpPc = "returned" /\ rpResult = rpLog[Len(rpLog)])
    /\ rpPc = "returned" => (Len(rpLog) > 0 /\ rpLog[Len(rpLog)].kind = "ok")
    /\ (rpPc = "raised" /\ rp.max_attempts > 0)
          => (Len(rpLog) = rp.max_attempts /\ rpResult = rpLog[Len(rpLog)]
                 /\ rpResult = [kind |-> "error", value |-> rp.max_attempts])
    /\ (Len(rpLog) = rp.max_attempts /\ rp.max_attempts > 0
           /\ rpLog[Len(rpLog)].kind = "error") => rpPc = "raised"

\* all of at least three attempts failed and execute() raised
C15_Witness ==
    rpPc = "raised" /\ rp.max_attempts >= 3 /\ Len(rpLog) = rp.max_attempts

(***************************************************************************)
(* C16: the delay slept after the k-th failed attempt (k counted from 1)   *)
(* is min(base_delay * exponential_base^(k-1), max_delay) with jitter off  *)
(* and lies between 0 and that value with jitter on; no delay exceeds      *)
(* max_delay; no delay is slept after the final attempt.                   *)
(***************************************************************************)
C16_DelayAfterAttempt ==
    /\ \A k \in 1..Len(rpDelays) :
          /\ ~rp.jitter => rpDelays[k] = Min(BaseDelay * Pow(ExponentialBase, k - 1), MaxDelay)
          /\ rp.jitter => (0 <= rpDelays[k]
                           /\ rpDelays[k] <= Min(BaseDelay * Pow(ExponentialBase, k - 1), MaxDelay))
          /\ rpDelays[k] <= MaxDelay
    /\ rpPc # "idle" => Len(rpDelays) <= rp.max_attempts - 1 \/ rp.max_attempts = 0
    /\ rpPc \in {"returned", "raised"} => Len(rpDelays) = Len(rpLog) - 1 \/ Len(rpLog) = 0
    /\ rpPc = "sleeping" => Len(rpDelays) = Len(rpLog)

\* jitter off, the capped third delay was slept and the fourth attempt made
C16_Witness ==
    ~rp.jitter /\ Len(rpDelays) >= 3 /\ rpDelays[3] = MaxDelay /\ Len(rpLog) >= 4

\* C16 as worded: the delay slept before attempt k (k counted from 1, so the
\* (k-1)-th delay) is min(base_delay * exponential_base^(k-1), max_delay)
\* with jitter off
C16_DelayBeforeAttempt ==
    \A k \in 2..(Len(rpDelays) + 1) :
        ~rp.jitter => rpDelays[k - 1] = Min(BaseDelay * Pow(ExponentialBase, k - 1), MaxDelay)

(***************************************************************************)
(* C17: for every error type, while fewer than alert_threshold errors of   *)
(* it are recorded no alert for it was triggered, whatever was recorded    *)
(* for other types; when exactly alert_threshold are recorded, all inside  *)
(* one alert_window, every registered callback was invoked exactly once    *)
(* for it, on the record that reached the threshold.                       *)
(***************************************************************************)
C17_OneAlertAtThreshold ==
    \A type \in ErrorTypes :
        LET n == Len(error_patterns[type])
            alerts == {i \in DOMAIN emAlerts : emAlerts[i].error_type = type}
        IN  /\ n < AlertThreshold => alerts = {}
            /\ (n = AlertThreshold
                  /\ error_patterns[type][n] - error_patterns[type][1] <= AlertWindow)
                 => /\ \A c \in 1..Len(AlertCallbacks) :
                          Cardinality({i \in alerts :
                              emAlerts[i].callback = AlertCallbacks[c]}) = 1
                    /\ \A i \in alerts : emAlerts[i].record = AlertThreshold
                                         /\ emAlerts[i].error_count = AlertThreshold

\* X reached the threshold inside the window, at different times, with
\* errors of Y recorded in between that stay below the threshold
C17_Witness ==
    /\ Len(error_patterns["X"]) = AlertThreshold
    /\ error_patterns["X"][AlertThreshold] > error_patterns["X"][1]
    /\ error_patterns["X"][AlertThreshold] - error_patterns["X"][1] <= AlertWindow
    /\ Len(error_patterns["Y"]) = AlertThreshold - 1
    /\ Len(emAlerts) = Len(AlertCallbacks)

(***************************************************************************)
(* C18: a get_balance or place_order call made while the client is not     *)
(* connected raises ConnectionError, sends no frame, and leaves the cached *)
(* balance and both tracked order sets as they were.                       *)
(***************************************************************************)
C18_NotConnectedStep ==
    (~balConnected /\ balLast' \in {"get_balance", "place_order"}) =>
        /\ balFrames' = balFrames
        /\ sentOrders' = sentOrders
        /\ balance' = balance
        /\ active_orders' = active_orders
        /\ order_results' = order_results
        /\ balLast' = "get_balance" => (gbPc' = "raised" /\ gbError' = "ConnectionError")
        /\ balLast' = "place_order" =>
              \A c \in Callers : opPc'[c] # opPc[c] \/ opError'[c] # opError[c]
                  => (opPc'[c] = "raised" /\ opError'[c] = "ConnectionError")

C18_NotConnectedFails == [][C18_NotConnectedStep]_vars

\* not connected, after an earlier connection that placed an order: both
\* calls have raised ConnectionError
C18_Witness ==
    /\ ~balConnected
    /\ gbPc = "raised" /\ gbError = "ConnectionError"
    /\ \E c \in Callers : opPc[c] = "raised" /\ opError[c] = "ConnectionError"
    /\ sentOrders # {}

(***************************************************************************)
(* C19: a get_balance that found the cached balance absent or older than   *)
(* 60 s and requested a refresh returns only a balance that a push         *)
(* delivered after the request.                                            *)
(***************************************************************************)
C19_ReturnsRefreshed ==
    (gbPc = "returned" /\ balLast = "wake") => gbResult.push > gbRequestedAt

(***************************************************************************)
(* C20: an order enters the completed set only from the active set, with   *)
(* status win if the settled profit is above zero and lose otherwise; a    *)
(* completed order keeps its result for ever and is never active again.    *)
(***************************************************************************)
C20_SettleStep ==
    \A id \in OrderIds :
        /\ id \in DOMAIN order_results =>
              /\ id \in DOMAIN order_results'
              /\ order_results'[id] = order_results[id]
              /\ id \notin DOMAIN active_orders'
        /\ (id \in DOMAIN order_results' /\ id \notin DOMAIN order_results) =>
              /\ id \in DOMAIN active_orders
              /\ id \notin DOMAIN active_orders'
              /\ order_results'[id].status = (IF order_results'[id].profit > 0 THEN "win" ELSE "lose")

C20_SettlementTerminal == [][C20_SettleStep]_vars

\* one order settled as a win, the other as a loss with zero profit
C20_Witness ==
    \E a, b \in DOMAIN order_results :
        /\ order_results[a].status = "win" /\ order_results[a].profit > 0
        /\ order_results[b].status = "lose" /\ order_results[b].profit = 0

C23_ModesAgree == mdPersistent = mdSimple

(***************************************************************************)
(* C24: the authentication frame sent in the handshake is an auth message  *)
(* whose isDemo is 1 for a client constructed with is_demo=True and 0 for  *)
(* is_demo=False, whatever the ssid carries and in either mode.            *)
(***************************************************************************)
C24_AuthCarriesIsDemo ==
    auFrame # NoFrame =>
        /\ auFrame.kind = "complete"
        /\ auFrame.isDemo = (IF auClient.is_demo THEN 1 ELSE 0)

(***************************************************************************)
(* C25: a place_order call on a connected client raises                    *)
(* InvalidParameterError exactly when the asset is not in the catalogue,   *)
(* or the amount or the duration lies outside its bounds; a rejected call  *)
(* sends no frame and leaves both tracked order sets as they were.         *)
(***************************************************************************)
C25_ValidationStep ==
    (vdCall' # NoCall /\ vdCall'.connected) =>
        LET call == vdCall'
            within == /\ call.asset \in ASSETS
                      /\ MinOrderAmount <= call.amount /\ call.amount <= MaxOrderAmount
                      /\ MinDuration <= call.duration /\ call.duration <= MaxDuration
            rejected == /\ opPc'[call.caller] = "raised"
                        /\ opError'[call.caller] = "InvalidParameterError"
        IN  /\ rejected <=> ~within
            /\ rejected => /\ sentOrders' = sentOrders
                           /\ active_orders' = active_orders
                           /\ order_results' = order_results

C26_UnknownTimeframeStep ==
    (vdCall' # NoCall /\ vdCall'.connected /\ vdCall'.timeframe \notin KnownTimeframes) =>
        /\ gcPc'[vdCall'.caller] = "raised"
        /\ gcError'[vdCall'.caller] = "InvalidParameterError"
        /\ candle_requests' = candle_requests
        /\ ~gcSent'[vdCall'.caller]

C26_UnknownTimeframeRejected == [][C26_UnknownTimeframeStep]_vars

(***************************************************************************)
(* C27: for every order a settlement moved to the completed set exactly    *)
(* one order_closed event with its result was emitted, with logging        *)
(* enabled or disabled.                                                    *)
(***************************************************************************)
C27_ClosedEventPerSettlement ==
    \A id \in OrderIds : id \in DOMAIN order_results => ocEmitted[id] = 1

(***************************************************************************)
(* C28: the request id of a place_order call is in neither set when the    *)
(* call starts to wait, and when the call returns it is in exactly one of  *)
(* _active_orders and _order_results, the entries of every other id being  *)
(* what they were: the call has added one tracked order, whether a push    *)
(* confirmed it, the timeout synthesized it, or the push came between the  *)
(* last poll and the final check.                                          *)
(***************************************************************************)
C28_Entries(act, res, id) ==
    (IF id \in DOMAIN act THEN 1 ELSE 0) + (IF id \in DOMAIN res THEN 1 ELSE 0)

C28_ReturnStep ==
    \A c \in Callers :
        /\ (opPc[c] # "waiting" /\ opPc'[c] = "waiting") =>
              C28_Entries(active_orders', order_results', opId'[c]) = 0
        /\ (opPc[c] = "waiting" /\ opPc'[c] = "returned") =>
              /\ C28_Entries(active_orders', order_results', opId[c]) = 1
              /\ \A id \in OrderIds \ {opId[c]} :
                    C28_Entries(active_orders', order_results', id)
                        = C28_Entries(active_orders, order_results, id)

C28_OneTrackedPerCall == [][C28_ReturnStep]_vars

\* one call returned the order a push confirmed after its last poll, the
\* other the order its timeout synthesized: two orders are tracked
C28_Witness ==
    \E c \in Callers, d \in Callers :
        /\ opPc[c] = "returned" /\ opPc[d] = "returned"
        /\ opPolls[c] = OrderPollLimit
        /\ opId[c] \in pushedIds
        /\ opResult[c].error_message = "none"
        /\ opResult[d].error_message = TimeoutAnnotation
        /\ opId[c] # opId[d]
        /\ Cardinality(DOMAIN active_orders) + Cardinality(DOMAIN order_results) = 2

(***************************************************************************)
(* C29: when a settlement push names an id whose entry in _active_orders   *)
(* is the provisional result a timeout synthesized, the push moves it: the *)
(* id leaves _active_orders and is in _order_results with status win or    *)
(* lose and the profit of the first deal of the push that names it.        *)
(***************************************************************************)
C29_FirstDeal(deals, id) ==
    deals[CHOOSE i \in DOMAIN deals :
            /\ deals[i].id = id
            /\ \A j \in DOMAIN deals : deals[j].id = id => i <= j]

C29_SettleProvisionalStep ==
    \A deals \in DealsInputs :
        OnJsonDataDeals(deals) =>
            \A id \in {deals[i].id : i \in DOMAIN deals} :
                (id \in DOMAIN active_orders
                    /\ active_orders[id].error_message = TimeoutAnnotation) =>
                    /\ id \notin DOMAIN active_orders'
                    /\ id \in DOMAIN order_results'
                    /\ order_results'[id].status \in {"win", "lose"}
                    /\ order_results'[id].profit = C29_FirstDeal(deals, id).profit

C29_ProvisionalSettled == [][C29_SettleProvisionalStep]_vars

\* the order a call got back as the provisional result has since been
\* settled by a push
C29_Witness ==
    \E c \in Callers :
        /\ opPc[c] = "returned"
        /\ opResult[c].error_message = TimeoutAnnotation
        /\ opId[c] \in DOMAIN order_results
        /\ opId[c] \notin DOMAIN active_orders
        /\ order_results[opId[c]].status \in {"win", "lose"}

(***************************************************************************)
(* C30: an order whose frame could not be sent is never tracked and its    *)
(* place_order never returns a result: every id a call has returned, and   *)
(* every id in _active_orders or _order_results, is the id of a frame that *)
(* was sent; a caller whose frame was refused is left with OrderError.     *)
(***************************************************************************)
C30_SendFailureTracksNothing ==
    /\ \A c \in Callers :
          opPc[c] = "returned" => opId[c] \in sentOrders
    /\ (DOMAIN active_orders) \cup (DOMAIN order_results) \subseteq sentOrders

(***************************************************************************)
(* C31: a step that takes the keep-alive manager's reconnect-attempt       *)
(* counter from above zero to zero is a connect cycle that opened a socket *)
(* and completed the handshake on it.                                      *)
(***************************************************************************)
C31_ResetStep ==
    (ka.current_reconnect_attempts > 0 /\ ka'.current_reconnect_attempts = 0) =>
        /\ ka'.websocket = "open"
        /\ kaHandshake' = "done"

C31_ResetOnlyOnSuccess == [][C31_ResetStep]_vars

(***************************************************************************)
(* C38: in every state of the keep-alive manager, is_connected true means  *)
(* a socket is held (websocket is not None).                               *)
(***************************************************************************)
C38_ConnectedHoldsSocket == ka.is_connected => ka.websocket # "none"

(***************************************************************************)
(* C32: when every reconnection attempt of the facade's reconnection       *)
(* monitor fails, the monitor makes no more attempts than the configured   *)
(* max_reconnect_attempts.                                                 *)
(***************************************************************************)
C32_ReconnectsBounded == total_reconnects <= ConnectionMaxReconnectAttempts

(***************************************************************************)
(* C36: at most one _ping_loop task and at most one _reconnection_monitor  *)
(* task of the facade are alive at any time.                               *)
(***************************************************************************)
C36_OneTaskOfEachKind ==
    /\ Orphaned(client.ping_task) + client.orphanPings <= 1
    /\ Orphaned(client.reconnect_task) + client.orphanMonitors <= 1

(***************************************************************************)
(* C33: while the session that start_persistent_connection re-established  *)
(* after a stop is connected on an open socket, the ping, receive, health  *)
(* and reconnection loops are running.                                     *)
(***************************************************************************)
C33_RestartResumesLoops ==
    (kaSession = "restarted" /\ ka.is_connected /\ ka.websocket = "open") =>
        /\ ka.ping_task = "alive"
        /\ ka.message_task = "alive"
        /\ ka.health_task = "alive"
        /\ ka.reconnect_task = "alive"

(***************************************************************************)
(* C34: the alert callbacks are invoked only on a record that brings its   *)
(* type's count inside the window up to alert_threshold, never on a record *)
(* made while that count was at or above the threshold already.            *)
(***************************************************************************)
C34_NoAlertAboveThreshold ==
    \A i \in DOMAIN emAlerts : emAlerts[i].error_count = AlertThreshold

(***************************************************************************)
(* C35: a health report says healthy exactly when no recorded probe        *)
(* status is non-healthy, degraded exactly when one is, unhealthy exactly  *)
(* when two or more are, in whatever order the probes were recorded; its   *)
(* unhealthy_services names each non-healthy probe once and no other.      *)
(***************************************************************************)
C35_NonHealthy == {i \in DOMAIN health_status : health_status[i].status # "healthy"}

C35_ReportAggregates ==
    hcReport # NoReport =>
        /\ (hcReport.overall_status = "healthy") = (Cardinality(C35_NonHealthy) = 0)
        /\ (hcReport.overall_status = "degraded") = (Cardinality(C35_NonHealthy) = 1)
        /\ (hcReport.overall_status = "unhealthy") = (Cardinality(C35_NonHealthy) >= 2)
        /\ {hcReport.unhealthy_services[j] : j \in DOMAIN hcReport.unhealthy_services}
              = {health_status[i].name : i \in C35_NonHealthy}
        /\ Len(hcReport.unhealthy_services) = Cardinality(C35_NonHealthy)

\* a report over three probes, the first recorded was healthy, the other
\* two are an unhealthy one and one that raised
C35_Witness ==
    /\ Len(health_status) = 3
    /\ health_status[1].status = "healthy"
    /\ {health_status[2].status, health_status[3].status} = {"unhealthy", "error"}
    /\ hcReport.overall_status = "unhealthy"
    /\ Len(hcReport.unhealthy_services) = 2

(***************************************************************************)
(* C37: a step of a push handler (one in which no get_candles call starts  *)
(* or ends and no future is created) that takes a request out of           *)
(* _candle_requests whose future was not done and is being waited on       *)
(* leaves that future done.                                                *)
(***************************************************************************)
C37_RemovalStep ==
    (gcPc' = gcPc /\ nextFut' = nextFut /\ gcSent' = gcSent) =>
        \A f \in Futures :
            (/\ \E i \in DOMAIN candle_requests : candle_requests[i].fut = f
             /\ ~futDone[f]
             /\ \E c \in CandleCallers : gcPc[c] = "waiting" /\ gcFut[c] = f
             /\ \A i \in DOMAIN candle_requests' : candle_requests'[i].fut # f)
            => futDone'[f]

C37_PendingStaysRegistered == [][C37_RemovalStep]_vars

(***************************************************************************)
(* C40: in every state of an OrderManager no order id is in both           *)
(* active_orders and completed_orders, and get_active_count plus           *)
(* get_completed_count is the number of distinct ids add_order or          *)
(* complete_order was called with.                                         *)
(***************************************************************************)
C40_ManagerSetsDisjoint ==
    /\ (DOMAIN omActive) \cap (DOMAIN omCompleted) = {}
    /\ GetActiveCount + GetCompletedCount = Cardinality(omSeen)

(***************************************************************************)
(* C39: with breaker and retry both enabled the breaker's failure counter  *)
(* is left alone by the single attempts; when the retry sequence ends it   *)
(* goes up by exactly one if every attempt failed and to zero if the last  *)
(* attempt succeeded; and while the breaker is OPEN inside its recovery    *)
(* timeout no retry sequence starts and no attempt is made.                *)
(***************************************************************************)
C39_SequenceStep ==
    /\ (rpPc \in {"returned", "raised"} /\ rpPc' = "idle") =>
          IF rpPc = "raised"
          THEN /\ cb'.failure_count = cb.failure_count + 1
               /\ Len(rpLog) = rp.max_attempts
               /\ \A i \in DOMAIN rpLog : rpLog[i].kind = "error"
          ELSE /\ cb'.failure_count = 0
               /\ cb'.state = "CLOSED"
               /\ rpLog[Len(rpLog)].kind = "ok"
    /\ rpLog' # rpLog /\ rpPc' # "idle" => cb' = cb
    /\ FailsFast(cb, cbNow) => (rpPc' = "idle" /\ rpLog = <<>> /\ rpLog' = <<>>)

====
